---- MODULE Spec2Model ----
(***************************************************************************)
(* WanderAI travel assistant: the response-validation pipeline             *)
(* (src/response_validation.py), the intent router                         *)
(* (src/modules/routing_engine.py) and the per-message orchestration       *)
(* (src/modules/chatbot_core.py, src/modules/module_dispatcher.py).        *)
(*                                                                         *)
(* Text is a sequence of tokens.  A token is a piece of the literal text:  *)
(* a capitalised word ([A-Z][a-z]+), a number (\d{1,4}), a punctuation     *)
(* mark, or a stretch of other text that holds neither.  Confidences are   *)
(* integers in hundredths (0.65 is 65).                                    *)
(***************************************************************************)
EXTENDS Integers, Sequences, FiniteSets, TLC

VARIABLES
    sessions,   \* WanderAIChatbotCoreV3.sessions: session id -> ChatSession
    pc,         \* position of the process_message call in flight
    cur,        \* its arguments and the session it resolved
    decision,   \* the RoutingDecision of the call (None before classify)
    result,     \* the result dict of the call (None before a handler returns)
    pre,        \* the result dict as it entered _post_process_response
    calls,      \* components invoked for the current message, in order
    faults,     \* exceptions raised (and where) while handling the message
    nmsgs,      \* process_message calls started
    arg,        \* input of the pure function under check (Router/Validator specs)
    ret         \* its output (None before it is applied)

vars == <<sessions, pc, cur, decision, result, pre, calls, faults, nmsgs, arg, ret>>

\* Python's None, where the value would be a record
None == [none |-> TRUE]
\* a key missing from a JSON object
NoKey == "<missing>"

(***************************************************************************)
(* Bounds of the model                                                     *)
(***************************************************************************)
MaxUnits == 3       \* pieces of text in a generated response (validator)
MaxKw == 3          \* keywords occurring in one utterance (router)
MaxMessages == 1    \* process_message calls in one run

(***************************************************************************)
(* Tokens                                                                  *)
(***************************************************************************)
\* words matched by [A-Z][a-z]+ that occur in the texts of the model
CapWords ==
    {"Lonavala", "Hidden", "Palace", "Pune", "Probably",
     "Source", "Sources", "Unverified", "According", "Verified", "Multiple",
     "Do", "Could", "Your", "How", "What", "To", "Budget", "Trip", "Type",
     "Please", "First", "Where", "Destination", "Number", "It", "If", "Feel",
     "Sorry", "Based", "Match", "Plan"}

\* tokens matched by \b\d{1,4}\b
NumWords == {"64", "1880", "1", "2", "90"}

\* str.lower() on a token (only capitalised tokens change)
LowerTok(t) ==
    CASE t = "Probably" -> "probably"
      [] t = "Sorry" -> "sorry"
      [] OTHER -> t

\* tokens that hold a "." character
DotToks == {".", "places.json", "treks.json"}

\* blanks between two adjacent tokens in the literal text
Sep(a, b) == IF a = "[" \/ b \in {":", "]", ".", ","} THEN 0 ELSE 1

RECURSIVE CharLen(_)
\* len() of the literal text of a token sequence
CharLen(s) ==
    IF s = <<>> THEN 0
    ELSE IF Len(s) = 1 THEN Len(s[1])
    ELSE Len(s[1]) + Sep(s[1], s[2]) + CharLen(Tail(s))

\* index of the first character of token i in the literal text
Offset(s, i) == IF i = 1 THEN 0
                ELSE CharLen(SubSeq(s, 1, i - 1)) + Sep(s[i - 1], s[i])

Max(a, b) == IF a >= b THEN a ELSE b
Min(a, b) == IF a <= b THEN a ELSE b

\* the orders in which Python may iterate a set / list(set(...))
Perms(S) ==
    {f \in [1..Cardinality(S) -> S] :
        \A i, j \in 1..Cardinality(S) : i # j => f[i] # f[j]}

RECURSIVE ReplaceAll(_, _, _)
\* re.sub(r"\b" + cand + r"\b", repl, text) and str.replace(cand, repl):
\* every non-overlapping occurrence, left to right
ReplaceAll(text, cand, repl) ==
    IF Len(text) < Len(cand) THEN text
    ELSE IF SubSeq(text, 1, Len(cand)) = cand
         THEN repl \o ReplaceAll(SubSeq(text, Len(cand) + 1, Len(text)), cand, repl)
         ELSE <<Head(text)>> \o ReplaceAll(Tail(text), cand, repl)

\* "[Unverified: <cand>]"
UnverifiedMarker(cand) == <<"[", "Unverified", ":">> \o cand \o <<"]">>

(***************************************************************************)
(* ResponseValidator.verify_claims_against_rag                             *)
(***************************************************************************)
\* re.findall(r"\b\d{1,4}\b", response)
Nums(text) == {<<text[i]>> : i \in {k \in DOMAIN text : text[k] \in NumWords}}

\* re.findall(r"\b([A-Z][a-z]+(?:\s+[A-Z][a-z]+)*)\b", response): the maximal
\* runs of capitalised words separated by blanks only
Caps(text) ==
    {SubSeq(text, i, j) : <<i, j>> \in
        {p \in (DOMAIN text) \X (DOMAIN text) :
            /\ p[1] <= p[2]
            /\ \A k \in p[1]..p[2] : text[k] \in CapWords
            /\ (p[1] = 1 \/ text[p[1] - 1] \notin CapWords)
            /\ (p[2] = Len(text) \/ text[p[2] + 1] \notin CapWords)}}

\* set(candidates)
Candidates(text) == Nums(text) \cup Caps(text)

\* outcomes of rag_engine.retrieve_with_sources(cand, top_k=3)
RagOutcomes == {"docs", "none", "raise"}

\* the retrieval services a response can meet: one outcome per candidate
RagsFor(text, outcomes) == [Candidates(text) -> outcomes]

\* the candidates the loop appends to unsupported
Unsupported(text, rag) == {c \in Candidates(text) : rag[c] # "docs"}

\* the orders in which the iteration of set(candidates) can reach them
OrdersFor(text, rag) == Perms(Unsupported(text, rag))

\* verify_claims_against_rag that lets a candidate pass when its lookup raises
verify_claims_fail_open(response, rag, ord) ==
    LET unsupported ==
            SelectSeq(ord, LAMBDA c : c \in Candidates(response) /\ rag[c] = "none")
    IN  [verified |-> (unsupported = <<>>), unsupported_claims |-> unsupported]

\* ord is the order in which the iteration reaches the unsupported candidates
verify_claims_against_rag(response, rag, ord) ==
    LET unsupported ==
            SelectSeq(ord, LAMBDA c : c \in Candidates(response) /\ rag[c] # "docs")
    IN  [verified |-> (unsupported = <<>>), unsupported_claims |-> unsupported]

(***************************************************************************)
(* ResponseValidationLayer.verify_and_redact                               *)
(***************************************************************************)
RECURSIVE InsertByLen(_, _)
InsertByLen(s, c) ==
    IF s = <<>> THEN <<c>>
    ELSE IF CharLen(Head(s)) >= CharLen(c)
         THEN <<Head(s)>> \o InsertByLen(Tail(s), c)
         ELSE <<c>> \o s

RECURSIVE SortByLenDesc(_)
\* sorted(unsupported, key=lambda x: -len(x)), a stable sort
SortByLenDesc(u) ==
    IF u = <<>> THEN <<>>
    ELSE InsertByLen(SortByLenDesc(SubSeq(u, 1, Len(u) - 1)), u[Len(u)])

RECURSIVE RedactEach(_, _)
RedactEach(text, cands) ==
    IF cands = <<>> THEN text
    ELSE RedactEach(ReplaceAll(text, Head(cands), UnverifiedMarker(Head(cands))),
                    Tail(cands))

\* verifierRaises: verify_claims_against_rag raised (caught at line 105)
verify_and_redact(response, rag, ord, verifierRaises) ==
    IF verifierRaises
    THEN [verified |-> TRUE, unsupported_claims |-> <<>>, redacted |-> response]
    ELSE LET check == verify_claims_against_rag(response, rag, ord)
             unsupported == check.unsupported_claims
         IN  IF unsupported = <<>>
             THEN [verified |-> TRUE, unsupported_claims |-> <<>>,
                   redacted |-> response]
             ELSE [verified |-> FALSE, unsupported_claims |-> unsupported,
                   redacted |-> RedactEach(response, SortByLenDesc(unsupported))]

(***************************************************************************)
(* ResponseValidationLayer: pattern detection, disclaimers, attribution    *)
(***************************************************************************)
SpecWindow == 100   \* characters inspected around a speculation match
InvWindow == 50     \* characters inspected around an invention match

\* speculation_patterns[1]: \b(?:probably|likely|presumably|maybe|perhaps)\b
HedgeWords == {"probably", "likely", "presumably", "maybe", "perhaps"}

\* invention_patterns[2], first alternative: roughly
RoughWords == {"roughly"}

\* '[Source:' (or '[Fact:') lies wholly inside text[lo:hi]
HasTagIn(text, tag, lo, hi) ==
    \E j \in 1..(Len(text) - 2) :
        /\ text[j] = "[" /\ text[j + 1] = tag /\ text[j + 2] = ":"
        /\ Offset(text, j) >= lo
        /\ Offset(text, j + 2) + 1 <= hi

\* the negative lookahead (?!\s+[^.]*\[) fails the match at token i
HedgeLookaheadBlocks(text, i) ==
    /\ i < Len(text)
    /\ Sep(text[i], text[i + 1]) = 1
    /\ \E j \in (i + 1)..Len(text) :
          /\ text[j] = "["
          /\ \A k \in (i + 1)..(j - 1) : text[k] \notin DotToks

\* text[max(0, start - w) : min(len(text), end + w)] holds no tag of tags
NoTagNear(text, i, w, tags) ==
    LET mstart == Offset(text, i)
        mend == mstart + Len(text[i])
        lo == Max(0, mstart - w)
        hi == Min(CharLen(text), mend + w)
    IN  \A tag \in tags : ~HasTagIn(text, tag, lo, hi)

\* _detect_unsourced_claims: set(unsourced), before it is made a list
detect_unsourced_claims(text) ==
    {<<text[i]>> : i \in
        {k \in DOMAIN text :
            \/ /\ LowerTok(text[k]) \in HedgeWords
               /\ ~HedgeLookaheadBlocks(text, k)
               /\ NoTagNear(text, k, SpecWindow, {"Source", "Fact"})
            \/ /\ LowerTok(text[k]) \in RoughWords
               /\ NoTagNear(text, k, InvWindow, {"Source"})}}

\* set(text.lower().split())
WordsOf(s) == {LowerTok(s[i]) : i \in DOMAIN s}

\* _find_related_fact: the first fact with the largest overlap, if above 0
find_related_fact(claim, facts) ==
    IF facts = <<>> THEN None
    ELSE LET score(i) == Cardinality(WordsOf(claim) \cap WordsOf(facts[i].fact))
             best == CHOOSE i \in DOMAIN facts :
                        /\ \A j \in DOMAIN facts : score(j) <= score(i)
                        /\ \A j \in 1..(i - 1) : score(j) < score(i)
         IN  IF score(best) > 0 THEN facts[best] ELSE None

RECURSIVE ReplaceFirstCI(_, _, _)
\* re.sub(re.escape(claim), repl, text, flags=re.IGNORECASE, count=1)
ReplaceFirstCI(text, claim, repl) ==
    IF Len(text) < Len(claim) THEN text
    ELSE IF \A k \in DOMAIN claim : LowerTok(text[k]) = LowerTok(claim[k])
         THEN repl \o SubSeq(text, Len(claim) + 1, Len(text))
         ELSE <<Head(text)>> \o ReplaceFirstCI(Tail(text), claim, repl)

\* "[According to my knowledge base: <fact>]"
KbDisclaimer(fact) ==
    <<"[", "According", "to my knowledge base", ":">> \o fact \o <<"]">>

RECURSIVE add_source_disclaimers(_, _, _)
\* _add_source_disclaimers, unsourced_claims in list order
add_source_disclaimers(response, facts, unsourced_claims) ==
    IF unsourced_claims = <<>> THEN response
    ELSE LET claim == Head(unsourced_claims)
             best_fact == find_related_fact(claim, facts)
             modified ==
                 IF best_fact # None
                 THEN ReplaceFirstCI(response, claim, KbDisclaimer(best_fact.fact))
                 ELSE ReplaceFirstCI(response, claim, UnverifiedMarker(claim))
         IN  add_source_disclaimers(modified, facts, Tail(unsourced_claims))

RECURSIVE JoinComma(_)
\* ', '.join(names)
JoinComma(names) ==
    IF names = <<>> THEN <<>>
    ELSE IF Len(names) = 1 THEN <<names[1]>>
    ELSE <<names[1], ",">> \o JoinComma(Tail(names))

\* the elements of a list, as set(list)
Range(s) == {s[i] : i \in DOMAIN s}

\* the footer of _add_source_attribution; sord is the order of set(sources)
SourcesFooter(sources, sord) ==
    <<"\n\n**", "Sources", ":**">>
    \o (IF sources # <<>> THEN JoinComma(sord) ELSE <<"knowledge base">>)
    \o (IF Len(sources) > 1
        THEN <<"(", "Multiple", "sources confirm this information)">>
        ELSE <<>>)

\* _add_source_attribution
add_source_attribution(response, facts, sources, sord) ==
    response \o SourcesFooter(sources, sord)

\* validate_response; cord is the order of list(set(unsourced)), sord that of
\* set(sources)
validate_response(response, sources, facts, cord, sord) ==
    LET unsourced_claims == cord
        disclaimed ==
            IF unsourced_claims # <<>>
            THEN add_source_disclaimers(response, facts, unsourced_claims)
            ELSE response
    IN  [is_valid |-> (Len(unsourced_claims) = 0),
         response |-> add_source_attribution(disclaimed, facts, sources, sord),
         unsourced_claims |-> unsourced_claims]

(***************************************************************************)
(* RoutingEngine (src/modules/routing_engine.py)                           *)
(* An utterance is the set of keywords that occur in query_lower.          *)
(***************************************************************************)
TASK_MODULE_CONFIDENCE_THRESHOLD == 65
QuickAcceptConfidence == 70
OutOfScopeConfidence == 90
GeneralChatConfidence == 60
KeywordBaseConfidence == 70
KeywordStepConfidence == 10
KeywordCapConfidence == 95
LlmDefaultConfidence == 70
LlmFailureConfidence == 50

TRIP_SUGGESTION_KEYWORDS ==
    {"suggest", "recommend", "best", "where", "destination", "place",
     "options", "alternatives", "choose", "prefer", "like to go",
     "good place", "fun", "weekend", "getaway", "escape",
     "trek", "hike", "hiking", "trekking", "mountain", "beach", "hill"}

ITINERARY_REQUEST_KEYWORDS ==
    {"itinerary", "plan", "build", "schedule", "organize", "arrange",
     "day by day", "timeline", "detailed plan", "what to do", "activities",
     "how to spend", "day plan", "activities plan", "full itinerary",
     "trek", "hike", "hiking", "trekking", "organize trip", "plan trip"}

DESTINATION_INFO_KEYWORDS ==
    {"tell me about", "what about", "information", "describe", "details",
     "what is", "how is", "famous", "known for", "special", "attractions",
     "things to do", "visit", "see", "explore", "history", "culture"}

TRAVEL_TIPS_KEYWORDS ==
    {"tip", "advice", "suggestion", "pack", "carry", "what to bring",
     "safety", "best time", "cost", "budget", "how much", "save money",
     "accommodation", "transport", "food", "climate", "weather", "clothes",
     "documents", "vaccine", "insurance", "guide", "book"}

TRAVEL_RELATED_KEYWORDS ==
    {"trip", "travel", "tour", "visit", "vacation", "holiday", "weekend",
     "trek", "hike", "beach", "mountain", "fort", "temple", "city",
     "distance", "road", "drive", "place", "destination", "explore",
     "budget", "cost", "rupees", "money", "day", "night", "person", "people",
     "yes", "no", "ok", "fine", "good", "better", "adjust", "change", "update"}

\* IntentType, in declaration order
IntentOrder ==
    <<"TRIP_SUGGESTION", "ITINERARY_REQUEST", "DESTINATION_INFO", "TRAVEL_TIPS",
      "GENERAL_CHAT", "OUT_OF_SCOPE">>
IntentTypes == Range(IntentOrder)

\* IntentType(intent_str): the member whose value is the string, else ValueError
IntentValues ==
    [s \in {"trip_suggestion", "itinerary_request", "destination_info",
            "travel_tips", "general_chat", "out_of_scope"} |->
        CASE s = "trip_suggestion" -> "TRIP_SUGGESTION"
          [] s = "itinerary_request" -> "ITINERARY_REQUEST"
          [] s = "destination_info" -> "DESTINATION_INFO"
          [] s = "travel_tips" -> "TRAVEL_TIPS"
          [] s = "general_chat" -> "GENERAL_CHAT"
          [] s = "out_of_scope" -> "OUT_OF_SCOPE"]

\* IntentType.value
IntentValue(t) == CHOOSE v \in DOMAIN IntentValues : IntentValues[v] = t

\* sum(1 for kw in KEYWORDS if kw in query_lower)
Score(query_lower, keywords) == Cardinality(query_lower \cap keywords)

RoutingDecision(intent, requires, conf) ==
    [intent_type |-> intent, requires_modules |-> requires,
     confidence |-> conf, path |-> "None"]

\* _set_routing_path with a strict threshold test (confidence > 0.65)
set_routing_path_strict(d) ==
    IF d.intent_type = "OUT_OF_SCOPE"
    THEN [d EXCEPT !.path = "FALLBACK"]
    ELSE IF d.intent_type \in {"TRIP_SUGGESTION", "ITINERARY_REQUEST"}
         THEN IF d.confidence > TASK_MODULE_CONFIDENCE_THRESHOLD
              THEN [d EXCEPT !.requires_modules = TRUE, !.path = "TASK_MODULES"]
              ELSE [d EXCEPT !.requires_modules = FALSE, !.path = "FALLBACK"]
         ELSE [d EXCEPT !.requires_modules = FALSE, !.path = "RAG_ONLY"]

\* _set_routing_path
set_routing_path(d) ==
    IF d.intent_type = "OUT_OF_SCOPE"
    THEN [d EXCEPT !.path = "FALLBACK"]
    ELSE IF d.intent_type \in {"TRIP_SUGGESTION", "ITINERARY_REQUEST"}
         THEN IF d.confidence >= TASK_MODULE_CONFIDENCE_THRESHOLD
              THEN [d EXCEPT !.requires_modules = TRUE, !.path = "TASK_MODULES"]
              ELSE [d EXCEPT !.requires_modules = FALSE, !.path = "FALLBACK"]
         ELSE [d EXCEPT !.requires_modules = FALSE, !.path = "RAG_ONLY"]

\* _keyword_based_routing with ties going to the last category that reaches
\* the maximum
keyword_based_routing_last_maximum(query_lower, conversation_history) ==
    LET counted == Score(query_lower, TRAVEL_RELATED_KEYWORDS)
        travel_score ==
            IF counted = 0 /\ conversation_history # <<>> THEN 1 ELSE counted
        scores ==
            [i \in 1..4 |->
                CASE i = 1 -> Score(query_lower, TRIP_SUGGESTION_KEYWORDS)
                  [] i = 2 -> Score(query_lower, ITINERARY_REQUEST_KEYWORDS)
                  [] i = 3 -> Score(query_lower, DESTINATION_INFO_KEYWORDS)
                  [] i = 4 -> Score(query_lower, TRAVEL_TIPS_KEYWORDS)]
        max_score == CHOOSE m \in Range(scores) : \A x \in Range(scores) : x <= m
        last == CHOOSE i \in 1..4 :
                    /\ scores[i] = max_score
                    /\ \A j \in (i + 1)..4 : scores[j] < max_score
        intent_type == IntentOrder[last]
    IN  IF travel_score = 0
        THEN RoutingDecision("OUT_OF_SCOPE", FALSE, OutOfScopeConfidence)
        ELSE IF max_score >= 1
             THEN RoutingDecision(
                      intent_type,
                      intent_type \in {"TRIP_SUGGESTION", "ITINERARY_REQUEST"},
                      Min(KeywordBaseConfidence + max_score * KeywordStepConfidence,
                          KeywordCapConfidence))
             ELSE RoutingDecision("GENERAL_CHAT", FALSE, GeneralChatConfidence)

\* _keyword_based_routing
keyword_based_routing(query_lower, conversation_history) ==
    LET counted == Score(query_lower, TRAVEL_RELATED_KEYWORDS)
        travel_score ==
            IF counted = 0 /\ conversation_history # <<>> THEN 1 ELSE counted
        scores ==
            [i \in 1..4 |->
                CASE i = 1 -> Score(query_lower, TRIP_SUGGESTION_KEYWORDS)
                  [] i = 2 -> Score(query_lower, ITINERARY_REQUEST_KEYWORDS)
                  [] i = 3 -> Score(query_lower, DESTINATION_INFO_KEYWORDS)
                  [] i = 4 -> Score(query_lower, TRAVEL_TIPS_KEYWORDS)]
        max_score == CHOOSE m \in Range(scores) : \A x \in Range(scores) : x <= m
        \* max(scores, key=scores.get): the first key that reaches the maximum
        first == CHOOSE i \in 1..4 :
                    /\ scores[i] = max_score
                    /\ \A j \in 1..(i - 1) : scores[j] < max_score
        intent_type == IntentOrder[first]
    IN  IF travel_score = 0
        THEN RoutingDecision("OUT_OF_SCOPE", FALSE, OutOfScopeConfidence)
        ELSE IF max_score >= 1
             THEN RoutingDecision(
                      intent_type,
                      intent_type \in {"TRIP_SUGGESTION", "ITINERARY_REQUEST"},
                      Min(KeywordBaseConfidence + max_score * KeywordStepConfidence,
                          KeywordCapConfidence))
             ELSE RoutingDecision("GENERAL_CHAT", FALSE, GeneralChatConfidence)

\* what the Generation Service can answer to the classification prompt:
\* a failure (generate or extract_json raises, or the reply is no JSON object),
\* or the parsed object, with or without its "confidence" key
LlmIntentStrings ==
    {"trip_suggestion", "itinerary_request", "destination_info",
     "travel_tips", "general_chat", "out_of_scope", "unknown_intent", NoKey}
LlmConfidences == {64, 65, 100, 120}
LlmFailure == [fail |-> TRUE]
LlmReplies ==
    {LlmFailure}
    \cup [intent : LlmIntentStrings, requires_modules : BOOLEAN,
          confidence : LlmConfidences]
    \cup [intent : LlmIntentStrings, requires_modules : BOOLEAN]

\* _llm_based_routing whose except branch keeps the default confidence 0.7
llm_based_routing_default_on_failure(reply) ==
    IF reply = LlmFailure
    THEN RoutingDecision("GENERAL_CHAT", FALSE, LlmDefaultConfidence)
    ELSE LET intent_str ==
                 IF reply.intent = NoKey THEN "general_chat" ELSE reply.intent
             intent_type ==
                 IF intent_str \in DOMAIN IntentValues
                 THEN IntentValues[intent_str] ELSE "GENERAL_CHAT"
             confidence ==
                 IF "confidence" \in DOMAIN reply THEN reply.confidence
                 ELSE LlmDefaultConfidence
         IN  RoutingDecision(intent_type, reply.requires_modules, confidence)

\* _llm_based_routing
llm_based_routing(reply) ==
    IF reply = LlmFailure
    THEN RoutingDecision("GENERAL_CHAT", FALSE, LlmFailureConfidence)
    ELSE LET intent_str ==
                 IF reply.intent = NoKey THEN "general_chat" ELSE reply.intent
             intent_type ==
                 IF intent_str \in DOMAIN IntentValues
                 THEN IntentValues[intent_str] ELSE "GENERAL_CHAT"
             confidence ==
                 IF "confidence" \in DOMAIN reply THEN reply.confidence
                 ELSE LlmDefaultConfidence
         IN  RoutingDecision(intent_type, reply.requires_modules, confidence)

\* the fast path decides: quick_decision.confidence >= 0.70
FastPath(query_lower, conversation_history) ==
    keyword_based_routing(query_lower, conversation_history).confidence
        >= QuickAcceptConfidence

\* classify
classify(query_lower, conversation_history, reply) ==
    LET quick_decision == keyword_based_routing(query_lower, conversation_history)
        chosen ==
            IF quick_decision.confidence >= QuickAcceptConfidence
            THEN quick_decision
            ELSE llm_based_routing(reply)
    IN  set_routing_path(chosen)

(***************************************************************************)
(* Fixed texts of src/modules/chatbot_core.py and module_dispatcher.py     *)
(***************************************************************************)
OutOfScopeMsg ==
    <<"I'm a travel assistant focused on", "Pune",
      "area trips. I can help with: destination suggestions, itinerary planning, travel tips, and place information.",
      "Do", "you have any travel-related questions?">>

ShortCircuitMsg ==
    <<"It", "looks like your requested budget is insufficient for the requested duration.",
      "Please", "increase the budget, shorten the trip, or provide a destination you already have in mind.">>

TripClarifications ==
    << <<"I'd like to suggest a destination!", "Could", "you tell me more about:\n-",
         "Your", "budget per person\n-", "How", "many days do you have?\n-",
         "What", "interests you (beach, trek, heritage, city, etc.)?">>,
       <<"To", "give you better suggestions, let me know:\n-", "Budget", "range\n-",
         "Trip", "duration\n-", "Type", "of experience you want">>,
       <<"I can help you find the perfect trip!", "Please", "share:\n-",
         "How", "much are you planning to spend?\n-", "How", "many days?\n-",
         "What", "kind of activities interest you?">> >>

ItineraryClarifications ==
    << <<"I can build a detailed itinerary!", "First", ", tell me about your trip:\n-",
         "Where", "are you thinking of going?\n-", "How", "many days?\n-",
         "What", "'s your budget?">>,
       <<"To", "create an itinerary, I need:\n-", "Destination", "name\n-",
         "Number", "of days\n-", "Your", "interests and budget">> >>

DefaultClarifications ==
    << <<"I'm not sure I understand.", "Could", "you provide more details?">> >>

\* with the default topics of _get_available_topics
NoAnswerMsg ==
    <<"I don't have this information in my knowledge base. I can help with: destinations, treks, beaches.",
      "Feel", "free to ask me about any of these!">>

ClosingSentence ==
    <<"\n\n", "If", "you'd like more details, I can expand any section.">>

PolitePrefix ==
    <<"I'm sorry - I couldn't verify some details in my response. I've removed or marked unverified items below.",
      "If", "you'd like, I can try to look up more details or clarify.\n\n">>

\* _format_suggestion_response, for one destination without highlights or tips
SuggestionText ==
    <<"Based", "on your preferences, here are my suggestions:\n\n", "1", ". **",
      "Lonavala", "** (", "Match", ":", "90", "%)">>

NoDestinationsText ==
    <<"I couldn't find suitable destinations matching your preferences.">>

\* _format_itinerary_response, for an itinerary without day plans
ItineraryText == <<"**", "Lonavala", "Trip", "Plan", "** (", "2", "days)\n">>

\* utils.formatters.beautify_itinerary, for the same itinerary
BeautifiedText == <<"Lonavala", "-", "2", "days">>

\* "\n\n**Verified sources:** ..."
VerifiedFooter(sources) ==
    IF sources # <<>>
    THEN <<"\n\n**", "Verified", "sources:**">> \o JoinComma(sources)
    ELSE <<"\n\n**", "Verified", "sources:** (none found)">>

\* response.lower().startswith("sorry")
StartsWithSorry(text) == text # <<>> /\ LowerTok(text[1]) = "sorry"

(***************************************************************************)
(* ChatSession and the result dicts (src/modules/chatbot_core.py)          *)
(***************************************************************************)
HistoryCap == 20        \* messages kept in ChatSession.message_history
HistoryWindow == 5      \* message_history[-5:] handed to the router

\* knowledge_base_timestamp is 0 for the creation time of the session and n
\* for rag.knowledge_base_timestamp as refreshed during the n-th message
NewSession ==
    [message_history |-> <<>>, topics_discussed |-> {},
     previous_responses |-> {}, suggested_places |-> <<>>,
     knowledge_base_timestamp |-> 0,
     validation_stats |-> [total_messages |-> 0, validated_responses |-> 0,
                           hallucinations_prevented |-> 0, kb_refreshes |-> 0]]

\* ChatSession.add_message dropping the newest entry on overflow
add_message_drop_newest(session, role, content) ==
    LET appended == Append(session.message_history,
                           [role |-> role, content |-> content])
    IN  [session EXCEPT !.message_history =
            IF Len(appended) > HistoryCap
            THEN SubSeq(appended, 1, HistoryCap) ELSE appended]

\* ChatSession.add_message
add_message(session, role, content) ==
    LET appended == Append(session.message_history,
                           [role |-> role, content |-> content])
    IN  [session EXCEPT !.message_history =
            IF Len(appended) > HistoryCap THEN Tail(appended) ELSE appended]

\* ChatSession.add_message of src/modules/chatbot_engine.py:
\* self.message_history = self.message_history[-20:]
add_message_engine(session, role, content) ==
    LET appended == Append(session.message_history,
                           [role |-> role, content |-> content])
    IN  [session EXCEPT !.message_history =
            IF Len(appended) > HistoryCap
            THEN SubSeq(appended, Len(appended) - HistoryCap + 1, Len(appended))
            ELSE appended]

\* ChatSession.record_validation_event
record_validation_event(session, event_type) ==
    IF event_type \in DOMAIN session.validation_stats
    THEN [session EXCEPT !.validation_stats[event_type] = @ + 1]
    ELSE session

\* lst[-n:]
LastN(lst, n) == SubSeq(lst, Max(1, Len(lst) - n + 1), Len(lst))

\* dict[key] = value, the dict kept as a set of <<key, value>> pairs
DictSet(d, key, value) == {p \in d : p[1] # key} \cup {<<key, value>>}

\* the truth value Python gives result.get("data")
DataTruthy(r) == "data" \in DOMAIN r /\ r.data \notin {"empty"}

\* the short-circuit dict of ModuleDispatcher.dispatch (it has no session_id;
\* process_message writes the same dict with one)
ShortCircuitResult ==
    [response |-> ShortCircuitMsg, has_answer |-> FALSE, sources |-> <<>>,
     module_used |-> "none", confidence |-> 0,
     validation_status |-> "rejected_budget", path |-> "SHORT_CIRCUIT",
     type |-> "error", data |-> "reason:critical_budget"]

\* _handle_out_of_scope
handle_out_of_scope(session, routing_decision) ==
    [response |-> OutOfScopeMsg, has_answer |-> FALSE, sources |-> <<>>,
     module_used |-> "rag_only", confidence |-> 0,
     validation_status |-> "failed", path |-> "FALLBACK",
     type |-> "out_of_scope"]

\* _handle_no_answer
handle_no_answer(session, routing_decision) ==
    [response |-> NoAnswerMsg, has_answer |-> FALSE, sources |-> <<>>,
     module_used |-> "rag_only", confidence |-> routing_decision.confidence,
     validation_status |-> "failed", path |-> "RAG_ONLY", type |-> "no_answer"]

\* _handle_fallback returning a type outside the result contract
handle_fallback_untyped(session, routing_decision) ==
    LET response_options ==
            CASE routing_decision.intent_type = "TRIP_SUGGESTION" ->
                     TripClarifications
              [] routing_decision.intent_type = "ITINERARY_REQUEST" ->
                     ItineraryClarifications
              [] OTHER -> DefaultClarifications
        msg_idx == session.validation_stats.total_messages % Len(response_options)
    IN  [response |-> response_options[msg_idx + 1], has_answer |-> FALSE,
         sources |-> <<>>, module_used |-> "clarification",
         confidence |-> routing_decision.confidence,
         validation_status |-> "partial", path |-> "FALLBACK",
         type |-> "clarification"]

\* _handle_fallback
handle_fallback(session, routing_decision) ==
    LET response_options ==
            CASE routing_decision.intent_type = "TRIP_SUGGESTION" ->
                     TripClarifications
              [] routing_decision.intent_type = "ITINERARY_REQUEST" ->
                     ItineraryClarifications
              [] OTHER -> DefaultClarifications
        msg_idx == session.validation_stats.total_messages % Len(response_options)
    IN  [response |-> response_options[msg_idx + 1], has_answer |-> FALSE,
         sources |-> <<>>, module_used |-> "clarification",
         confidence |-> routing_decision.confidence,
         validation_status |-> "partial", path |-> "FALLBACK",
         type |-> "clarification_needed"]

(***************************************************************************)
(* ModuleDispatcher.dispatch (src/modules/module_dispatcher.py)            *)
(***************************************************************************)
\* what QueryRefiner.refine_structured / refine can do on one call
RefineOutcomes == {"ok", "critical", "raise"}
\* IntentExtractor.extract, DestinationSuggester.suggest, ItineraryBuilder.build
ExtractOutcomes == {"intent", "falsy", "raise"}
SuggestOutcomes == {"destinations", "empty", "raise"}
BuildOutcomes == {"itinerary", "raise"}

\* _extract_destination_from_context: a TravelIntent has no destination field
extract_destination_from_context(session) ==
    IF session.suggested_places # <<>> THEN session.suggested_places[1] ELSE "None"

\* dispatch; structured and legacy are the outcomes of refine_structured and of
\* the legacy refine tried when it raises.  Returns the components called, and
\* either the result dict or raised = TRUE when the exception leaves dispatch.
dispatch(session, routing_decision, structured, legacy, ext, sug, bld) ==
    LET fallback == handle_fallback(session, routing_decision)
        refined == IF structured = "raise" THEN legacy ELSE structured
        refine_calls == IF structured = "raise"
                        THEN <<"query_refiner", "query_refiner">>
                        ELSE <<"query_refiner">>
        Out(calls_made, r) == [calls |-> calls_made, raised |-> FALSE, result |-> r]
    IN  IF refined = "raise"
        THEN [calls |-> refine_calls, raised |-> TRUE, result |-> None]
        ELSE IF refined = "critical"
        THEN Out(refine_calls, ShortCircuitResult)
        ELSE IF ext # "intent"
        THEN Out(refine_calls \o <<"intent_extractor">>, fallback)
        ELSE IF routing_decision.intent_type = "TRIP_SUGGESTION"
        THEN Out(refine_calls \o <<"intent_extractor", "destination_suggester">>,
                 CASE sug = "destinations" ->
                          [response |-> SuggestionText, has_answer |-> TRUE,
                           sources |-> <<"places.json">>, module_used |-> "modules",
                           confidence |-> routing_decision.confidence,
                           validation_status |-> "grounded",
                           path |-> "TASK_MODULES", type |-> "suggestion",
                           data |-> "suggestions"]
                   [] sug = "empty" ->
                          [response |-> NoDestinationsText, has_answer |-> FALSE,
                           sources |-> <<>>, module_used |-> "modules",
                           confidence |-> routing_decision.confidence,
                           validation_status |-> "partial",
                           path |-> "TASK_MODULES", type |-> "suggestion",
                           data |-> "empty"]
                   [] OTHER -> fallback)
        ELSE IF routing_decision.intent_type = "ITINERARY_REQUEST"
        THEN IF extract_destination_from_context(session) # "None"
             THEN Out(refine_calls \o <<"intent_extractor", "itinerary_builder">>,
                      IF bld = "itinerary"
                      THEN [response |-> ItineraryText, has_answer |-> TRUE,
                            sources |-> <<"places.json">>, module_used |-> "modules",
                            confidence |-> routing_decision.confidence,
                            validation_status |-> "grounded",
                            path |-> "TASK_MODULES", type |-> "itinerary",
                            data |-> "itinerary"]
                      ELSE fallback)
             ELSE Out(refine_calls \o <<"intent_extractor">>, fallback)
        ELSE Out(refine_calls \o <<"intent_extractor">>, fallback)

\* _handle_module_pipeline
handle_module_pipeline(session, routing_decision, structured, legacy, ext, sug, bld) ==
    LET d == dispatch(session, routing_decision, structured, legacy, ext, sug, bld)
    IN  IF d.raised
        THEN [d EXCEPT !.result = handle_fallback(session, routing_decision)]
        ELSE d

(***************************************************************************)
(* _post_process_response (src/modules/chatbot_core.py)                    *)
(***************************************************************************)
\* where an exception can arise in post-processing:
\*   "verifier"  verify_claims_against_rag raises; verify_and_redact catches it
\*   "redact"    verify_and_redact raises; _post_process_response catches it
\*   "escape"    an exception leaves _post_process_response.  Every statement
\*               that writes into result assigns an already computed value, so
\*               the exception precedes the first write; process_message
\*               catches it
PostFaults == {"none", "verifier", "redact", "escape"}

RECURSIVE MarkEach(_, _)
\* for cand in unsupported: modified = modified.replace(cand, "[Unverified: ..]")
MarkEach(text, cands) ==
    IF cands = <<>> THEN text
    ELSE MarkEach(ReplaceAll(text, Head(cands), UnverifiedMarker(Head(cands))),
                  Tail(cands))

\* a bypass test that lets no result through
BypassesVerification_never(r) == r.path = "NEVER"

\* the bypass test for results of the task modules
BypassesVerification(r) == r.path = "TASK_MODULES" \/ r.module_used = "modules"

\* the verification dict _post_process_response works with
Verification(r, rag, ord, fault) ==
    IF fault = "redact"
    THEN [verified |-> TRUE, unsupported_claims |-> <<>>]
    ELSE verify_and_redact(r.response, rag, ord, fault = "verifier")

\* the itinerary beautification at the end of _post_process_response
Beautify(r) ==
    IF r.type = "itinerary" /\ DataTruthy(r)
    THEN [r EXCEPT !.response = BeautifiedText]
            @@ ("response_pretty" :> BeautifiedText)
    ELSE r

\* post-processing whose escaping exception arrives after the apology prefix
\* was written into the result
post_process_response_partial_write(r, rag, ord, fault) ==
    IF fault = "escape" THEN [r EXCEPT !.response = PolitePrefix \o @]
    ELSE IF BypassesVerification(r)
    THEN IF r.response # <<>> /\ ~StartsWithSorry(r.response)
            /\ r.type # "suggestion"
         THEN [r EXCEPT !.response = @ \o ClosingSentence]
         ELSE r
    ELSE LET unsupported == Verification(r, rag, ord, fault).unsupported_claims
         IN  Beautify(
                 IF unsupported # <<>>
                 THEN [r EXCEPT
                          !.response = PolitePrefix
                                       \o MarkEach(r.response, unsupported)
                                       \o VerifiedFooter(r.sources),
                          !.validation_status = "partial",
                          !.has_answer = FALSE]
                 ELSE IF r.response # <<>> /\ ~StartsWithSorry(r.response)
                      THEN [r EXCEPT !.response = @ \o ClosingSentence]
                      ELSE r)

post_process_response(r, rag, ord, fault) ==
    IF fault = "escape" THEN r
    ELSE IF BypassesVerification(r)
    THEN IF r.response # <<>> /\ ~StartsWithSorry(r.response)
            /\ r.type # "suggestion"
         THEN [r EXCEPT !.response = @ \o ClosingSentence]
         ELSE r
    ELSE LET unsupported == Verification(r, rag, ord, fault).unsupported_claims
         IN  Beautify(
                 IF unsupported # <<>>
                 THEN [r EXCEPT
                          !.response = PolitePrefix
                                       \o MarkEach(r.response, unsupported)
                                       \o VerifiedFooter(r.sources),
                          !.validation_status = "partial",
                          !.has_answer = FALSE]
                 ELSE IF r.response # <<>> /\ ~StartsWithSorry(r.response)
                      THEN [r EXCEPT !.response = @ \o ClosingSentence]
                      ELSE r)

(***************************************************************************)
(* _handle_general_chat and process_message (src/modules/chatbot_core.py)  *)
(***************************************************************************)
\* what an utterance can hold: the keywords of the router that occur in it
UserInputs == {{}, {"suggest"}, {"plan"}, {"visit"}}

\* rag.retrieve_with_sources(user_input, top_k=5): it raises, or returns a dict
SourceLists == {<<>>, <<"places.json">>, <<"places.json", "treks.json">>}
FactLists == {<<>>, << [fact |-> <<"Lonavala", "is", "probably", "cold">>] >>}
RetrievalFailure == [fail |-> TRUE]
RetrievalResults ==
    {RetrievalFailure, [documents |-> FALSE, sources |-> <<>>, facts |-> <<>>]}
    \cup [documents : {TRUE}, sources : SourceLists, facts : FactLists]

\* llm_client.generate for the grounded answer: it raises, or returns a text
GenerationFailure == <<"<raise>">>
ChatReplies ==
    {<<"Lonavala", "is a hill station">>,
     <<"it is", "probably", "cold">>,
     <<"Sorry", ", that is not in the knowledge base">>}

\* the classification replies the orchestrator is run against: those that
\* lead where the keyword fast path of UserInputs does not
RoutingReplies ==
    {LlmFailure,
     [intent |-> "out_of_scope", requires_modules |-> FALSE, confidence |-> 65],
     [intent |-> "trip_suggestion", requires_modules |-> TRUE, confidence |-> 64],
     [intent |-> "trip_suggestion", requires_modules |-> TRUE, confidence |-> 65]}

\* _handle_general_chat; cord and sord are the iteration orders of the sets
\* built inside validate_response
handle_general_chat(user_input, session, routing_decision, rag_results, response, cord, sord) ==
    LET v == validate_response(response, rag_results.sources, rag_results.facts,
                               cord, sord)
        s1 == IF ~v.is_valid
              THEN record_validation_event(session, "hallucinations_prevented")
              ELSE session
        s2 == record_validation_event(s1, "validated_responses")
        s3 == [s2 EXCEPT
                 !.previous_responses = DictSet(@, user_input, v.response),
                 !.topics_discussed = @ \cup {IntentValue(routing_decision.intent_type)}]
    IN  [session |-> s3,
         unsourced_claims |-> v.unsourced_claims,
         result |->
            [response |-> v.response, has_answer |-> TRUE,
             sources |-> rag_results.sources, module_used |-> "rag_only",
             confidence |-> routing_decision.confidence,
             validation_status |-> IF v.is_valid THEN "grounded" ELSE "partial",
             path |-> "RAG_ONLY", type |-> "general_chat"]]

\* the arguments and observations of the process_message call in flight;
\* generated is the text the Generation Service returned to _handle_general_chat
NoCall ==
    [user_input |-> {}, session_id |-> 0, is_new |-> FALSE,
     flags |-> "unset", dispatch_flags |-> "unset", dispatched |-> None,
     generated |-> <<>>,
     unsourced |-> {}, unsupported |-> {}, verified_against |-> {},
     refresh_kb |-> FALSE, kb_checks |-> 0, kb_reported |-> FALSE,
     kb_before |-> [kb_refreshes |-> 0, knowledge_base_timestamp |-> 0]]

Init ==
    /\ sessions = <<>>
    /\ pc = "idle"
    /\ cur = NoCall
    /\ decision = None
    /\ result = None
    /\ pre = None
    /\ calls = <<>>
    /\ faults = {}
    /\ nmsgs = 0
    /\ arg = None
    /\ ret = None

\* session ids a caller can pass: none (0), a live one, or one never issued
UnknownSessionId == 99
SessionArgs == {0, UnknownSessionId} \cup DOMAIN sessions

\* what rag.conditional_refresh() can do; it is not called without refresh_kb
KbOutcomes(refresh_kb) ==
    IF refresh_kb THEN {"fresh", "refreshed", "raise"} ELSE {"fresh"}

\* process_message whose KB check counts a refresh whatever the check reports
Receive_counts_every_check(user_input, session_id, refresh_kb, kb) ==
    /\ pc \in {"idle", "done", "raised"}
    /\ nmsgs < MaxMessages
    /\ LET known == session_id # 0 /\ session_id \in DOMAIN sessions
           sid == IF known THEN session_id ELSE Len(sessions) + 1
           s0 == IF known THEN sessions[sid] ELSE NewSession
           s1 == [add_message(s0, "User", user_input)
                    EXCEPT !.validation_stats.total_messages = @ + 1]
           s2 == IF refresh_kb /\ kb # "raise"
                 THEN record_validation_event(
                          [s1 EXCEPT !.knowledge_base_timestamp = nmsgs + 1],
                          "kb_refreshes")
                 ELSE s1
       IN  /\ sessions' = IF known THEN [sessions EXCEPT ![sid] = s2]
                          ELSE Append(sessions, s2)
           /\ cur' = [NoCall EXCEPT
                        !.user_input = user_input,
                        !.session_id = sid, !.is_new = ~known,
                        !.refresh_kb = refresh_kb,
                        !.kb_checks = IF refresh_kb THEN 1 ELSE 0,
                        !.kb_reported = refresh_kb /\ kb = "refreshed",
                        !.kb_before =
                            [kb_refreshes |-> s0.validation_stats.kb_refreshes,
                             knowledge_base_timestamp |-> s0.knowledge_base_timestamp]]
    /\ pc' = IF refresh_kb /\ kb = "raise" THEN "raised" ELSE "refine"
    /\ faults' = IF refresh_kb /\ kb = "raise" THEN {"conditional_refresh"} ELSE {}
    /\ decision' = None
    /\ result' = None
    /\ pre' = None
    /\ calls' = <<>>
    /\ nmsgs' = nmsgs + 1
    /\ UNCHANGED <<arg, ret>>

\* process_message, lines 163-180: session lookup, add_message, KB refresh.
\* cur notes how often conditional_refresh was called, what it reported and
\* what the session held before.
Receive(user_input, session_id, refresh_kb, kb) ==
    /\ pc \in {"idle", "done", "raised"}
    /\ nmsgs < MaxMessages
    /\ LET known == session_id # 0 /\ session_id \in DOMAIN sessions
           sid == IF known THEN session_id ELSE Len(sessions) + 1
           s0 == IF known THEN sessions[sid] ELSE NewSession
           s1 == [add_message(s0, "User", user_input)
                    EXCEPT !.validation_stats.total_messages = @ + 1]
           s2 == IF refresh_kb /\ kb = "refreshed"
                 THEN record_validation_event(
                          [s1 EXCEPT !.knowledge_base_timestamp = nmsgs + 1],
                          "kb_refreshes")
                 ELSE s1
       IN  /\ sessions' = IF known THEN [sessions EXCEPT ![sid] = s2]
                          ELSE Append(sessions, s2)
           /\ cur' = [NoCall EXCEPT
                        !.user_input = user_input,
                        !.session_id = sid, !.is_new = ~known,
                        !.refresh_kb = refresh_kb,
                        !.kb_checks = IF refresh_kb THEN 1 ELSE 0,
                        !.kb_reported = refresh_kb /\ kb = "refreshed",
                        !.kb_before =
                            [kb_refreshes |-> s0.validation_stats.kb_refreshes,
                             knowledge_base_timestamp |-> s0.knowledge_base_timestamp]]
    /\ pc' = IF refresh_kb /\ kb = "raise" THEN "raised" ELSE "refine"
    /\ faults' = IF refresh_kb /\ kb = "raise" THEN {"conditional_refresh"} ELSE {}
    /\ decision' = None
    /\ result' = None
    /\ pre' = None
    /\ calls' = <<>>
    /\ nmsgs' = nmsgs + 1
    /\ UNCHANGED <<arg, ret>>

\* the structured refinement without the critical-budget short circuit
Refine_without_short_circuit(outcome) ==
    /\ pc = "refine"
    /\ calls' = Append(calls, "query_refiner")
    /\ cur' = [cur EXCEPT !.flags = outcome]
    /\ result' = result
    /\ pc' = "route"
    /\ faults' = IF outcome = "raise" THEN faults \cup {"refine_structured"}
                 ELSE faults
    /\ UNCHANGED <<sessions, decision, pre, nmsgs, arg, ret>>

\* process_message, lines 184-209: the structured refinement and the
\* critical-budget short circuit
Refine(outcome) ==
    /\ pc = "refine"
    /\ calls' = Append(calls, "query_refiner")
    /\ cur' = [cur EXCEPT !.flags = outcome]
    /\ IF outcome = "critical"
       THEN /\ result' = ShortCircuitResult @@ ("session_id" :> cur.session_id)
            /\ pc' = "done"
       ELSE /\ result' = result
            /\ pc' = "route"
    /\ faults' = IF outcome = "raise" THEN faults \cup {"refine_structured"}
                 ELSE faults
    /\ UNCHANGED <<sessions, decision, pre, nmsgs, arg, ret>>

\* process_message, line 211: routing_engine.classify
Route(reply) ==
    /\ pc = "route"
    /\ LET history == LastN(sessions[cur.session_id].message_history, HistoryWindow)
       IN  /\ decision' = classify(cur.user_input, history, reply)
           /\ calls' = calls \o <<"router">>
                       \o (IF FastPath(cur.user_input, history) THEN <<>>
                           ELSE <<"generation">>)
           /\ faults' = IF ~FastPath(cur.user_input, history) /\ reply = LlmFailure
                        THEN faults \cup {"llm_based_routing"} ELSE faults
    /\ pc' = "handle"
    /\ UNCHANGED <<sessions, cur, result, pre, nmsgs, arg, ret>>

\* what the call in flight hands back to process_message, line 233
Returned(r) == r @@ ("session_id" :> cur.session_id)

\* process_message, lines 214-215: _handle_out_of_scope
HandleOutOfScope ==
    /\ pc = "handle"
    /\ decision.intent_type = "OUT_OF_SCOPE"
    /\ result' = Returned(handle_out_of_scope(sessions[cur.session_id], decision))
    /\ pc' = "post"
    /\ UNCHANGED <<sessions, cur, decision, pre, calls, faults, nmsgs, arg, ret>>

\* process_message, lines 222-223: _handle_module_pipeline
HandleModulePipeline(structured, legacy, ext, sug, bld) ==
    /\ pc = "handle"
    /\ decision.intent_type \in {"TRIP_SUGGESTION", "ITINERARY_REQUEST"}
    /\ decision.confidence >= TASK_MODULE_CONFIDENCE_THRESHOLD
    /\ LET d == dispatch(sessions[cur.session_id], decision,
                         structured, legacy, ext, sug, bld)
           h == handle_module_pipeline(sessions[cur.session_id], decision,
                                       structured, legacy, ext, sug, bld)
       IN  /\ result' = Returned(h.result)
           /\ calls' = calls \o <<"dispatcher">> \o h.calls
           /\ cur' = [cur EXCEPT
                        !.dispatch_flags =
                            IF structured = "raise" THEN legacy ELSE structured,
                        !.dispatched = d.result]
           /\ faults' = faults
                 \cup (IF structured = "raise" THEN {"dispatch.refine_structured"}
                       ELSE {})
                 \cup (IF d.raised THEN {"dispatch"} ELSE {})
                 \cup (IF "intent_extractor" \in Range(h.calls) /\ ext = "raise"
                       THEN {"intent_extractor"} ELSE {})
                 \cup (IF "destination_suggester" \in Range(h.calls) /\ sug = "raise"
                       THEN {"destination_suggester"} ELSE {})
                 \cup (IF "itinerary_builder" \in Range(h.calls) /\ bld = "raise"
                       THEN {"itinerary_builder"} ELSE {})
    /\ pc' = "post"
    /\ UNCHANGED <<sessions, decision, pre, nmsgs, arg, ret>>

\* process_message, lines 224-226: _handle_fallback for a low confidence
HandleFallback ==
    /\ pc = "handle"
    /\ decision.intent_type \in {"TRIP_SUGGESTION", "ITINERARY_REQUEST"}
    /\ decision.confidence < TASK_MODULE_CONFIDENCE_THRESHOLD
    /\ result' = Returned(handle_fallback(sessions[cur.session_id], decision))
    /\ pc' = "post"
    /\ UNCHANGED <<sessions, cur, decision, pre, calls, faults, nmsgs, arg, ret>>

\* process_message, lines 228-230: _handle_general_chat.  An exception of the
\* Retrieval or the Generation Service leaves process_message.
HandleGeneralChat(rag_results, response) ==
    /\ pc = "handle"
    /\ decision.intent_type \in {"DESTINATION_INFO", "TRAVEL_TIPS", "GENERAL_CHAT"}
    /\ IF rag_results = RetrievalFailure
       THEN /\ calls' = Append(calls, "retrieval")
            /\ faults' = faults \cup {"retrieve_with_sources"}
            /\ pc' = "raised"
            /\ UNCHANGED <<sessions, cur, result>>
       ELSE IF ~rag_results.documents
       THEN /\ calls' = Append(calls, "retrieval")
            /\ result' = Returned(handle_no_answer(sessions[cur.session_id], decision))
            /\ pc' = "post"
            /\ UNCHANGED <<sessions, cur, faults>>
       ELSE IF response = GenerationFailure
       THEN /\ calls' = calls \o <<"retrieval", "generation">>
            /\ faults' = faults \cup {"generate"}
            /\ pc' = "raised"
            /\ UNCHANGED <<sessions, cur, result>>
       ELSE \E cord \in Perms(detect_unsourced_claims(response)) :
            \E sord \in Perms(Range(rag_results.sources)) :
               LET h == handle_general_chat(cur.user_input, sessions[cur.session_id],
                                            decision, rag_results, response, cord, sord)
               IN  /\ calls' = calls \o <<"retrieval", "generation", "validator">>
                   /\ sessions' = [sessions EXCEPT ![cur.session_id] = h.session]
                   /\ cur' = [cur EXCEPT !.unsourced = Range(h.unsourced_claims),
                                        !.generated = response]
                   /\ result' = Returned(h.result)
                   /\ pc' = "post"
                   /\ UNCHANGED faults
    /\ UNCHANGED <<decision, pre, nmsgs, arg, ret>>

\* process_message, lines 236-241: _post_process_response and the return
PostProcess(rag, ord, fault) ==
    /\ pc = "post"
    /\ LET verifies == fault \in {"none", "verifier"} /\ ~BypassesVerification(result)
           arises == fault = "escape"
                     \/ (fault # "none" /\ ~BypassesVerification(result))
           v == Verification(result, rag, ord, fault)
       IN  /\ result' = post_process_response(result, rag, ord, fault)
           /\ pre' = result
           /\ calls' = calls
                 \o (IF fault # "escape" /\ ~BypassesVerification(result)
                     THEN <<"verifier">> ELSE <<>>)
                 \o (IF fault = "none" /\ ~BypassesVerification(result)
                        /\ Candidates(result.response) # {}
                     THEN <<"retrieval">> ELSE <<>>)
           /\ faults' = IF arises THEN faults \cup {fault} ELSE faults
           /\ cur' = [cur EXCEPT
                        !.unsupported =
                            IF fault # "escape" /\ ~BypassesVerification(result)
                            THEN Range(v.unsupported_claims) ELSE {},
                        !.verified_against =
                            IF fault = "none" /\ ~BypassesVerification(result)
                            THEN Candidates(result.response) ELSE {}]
    /\ pc' = "done"
    /\ UNCHANGED <<sessions, decision, nmsgs, arg, ret>>

\* the text whose candidates are looked up in post-processing: none when the
\* result bypasses verification or the exception comes before the lookups
CheckedText(fault) ==
    IF pc = "post" /\ fault = "none" /\ ~BypassesVerification(result)
    THEN result.response ELSE <<>>

Next ==
    \/ \E user_input \in UserInputs, session_id \in SessionArgs,
          refresh_kb \in BOOLEAN :
       \E kb \in KbOutcomes(refresh_kb) :
          Receive(user_input, session_id, refresh_kb, kb)
    \/ \E outcome \in RefineOutcomes : Refine(outcome)
    \/ \E reply \in RoutingReplies : Route(reply)
    \/ HandleOutOfScope
    \/ \E structured \in RefineOutcomes, legacy \in RefineOutcomes,
          ext \in ExtractOutcomes, sug \in SuggestOutcomes, bld \in BuildOutcomes :
          HandleModulePipeline(structured, legacy, ext, sug, bld)
    \/ HandleFallback
    \/ \E rag_results \in RetrievalResults,
          response \in ChatReplies \cup {GenerationFailure} :
          HandleGeneralChat(rag_results, response)
    \/ \E fault \in PostFaults :
       \E rag \in RagsFor(CheckedText(fault), {"docs", "none"}) :
       \E ord \in OrdersFor(CheckedText(fault), rag) :
          PostProcess(rag, ord, fault)

Spec == Init /\ [][Next]_vars

(***************************************************************************)
(* RoutingEngine.classify on its own: every utterance of up to MaxKw       *)
(* keywords, with and without history, against every classification reply  *)
(***************************************************************************)
\* keywords of each category, of several, and of none but the travel list
KeywordSample == {"suggest", "trek", "plan", "visit", "budget", "trip", "weekend"}
Utterances == {u \in SUBSET KeywordSample : Cardinality(u) <= MaxKw}
Histories == {<<>>, << [role |-> "User", content |-> {"trip"}] >>}

RouterArgs ==
    [query_lower : Utterances, conversation_history : Histories, reply : LlmReplies]

InitRouter ==
    /\ arg \in RouterArgs
    /\ ret = None
    /\ sessions = <<>> /\ pc = "idle" /\ cur = NoCall /\ decision = None
    /\ result = None /\ pre = None /\ calls = <<>> /\ faults = {} /\ nmsgs = 0

\* calls records which of the two routing methods classify called
Classify ==
    /\ ret = None
    /\ ret' = classify(arg.query_lower, arg.conversation_history, arg.reply)
    /\ calls' = IF FastPath(arg.query_lower, arg.conversation_history)
                THEN <<"_keyword_based_routing">>
                ELSE <<"_keyword_based_routing", "_llm_based_routing">>
    /\ UNCHANGED <<sessions, pc, cur, decision, result, pre, faults, nmsgs, arg>>

\* classify called a second time with the same utterance and history; the
\* Generation Service, asked again on the slow path, answers reply
ClassifyAgain(reply) ==
    /\ ret # None
    /\ decision = None
    /\ decision' = classify(arg.query_lower, arg.conversation_history, reply)
    /\ UNCHANGED <<sessions, pc, cur, result, pre, calls, faults, nmsgs, arg, ret>>

NextRouter ==
    \/ Classify
    \/ \E reply \in RoutingReplies : ClassifyAgain(reply)

SpecRouter == InitRouter /\ [][NextRouter]_vars

\* C1: the path of every decision classify returns is fixed by its intent and
\* confidence alone: OUT_OF_SCOPE gives FALLBACK; TRIP_SUGGESTION and
\* ITINERARY_REQUEST give TASK_MODULES when the confidence is at least 0.65
\* (0.65 included) and FALLBACK below; the other intents give RAG_ONLY.
C1_PathIsFunctionOfIntentAndConfidence ==
    ret # None =>
        ret.path =
            CASE ret.intent_type = "OUT_OF_SCOPE" -> "FALLBACK"
              [] ret.intent_type \in {"TRIP_SUGGESTION", "ITINERARY_REQUEST"} ->
                    IF ret.confidence >= 65 THEN "TASK_MODULES" ELSE "FALLBACK"
              [] ret.intent_type \in
                    {"DESTINATION_INFO", "TRAVEL_TIPS", "GENERAL_CHAT"} -> "RAG_ONLY"

C1_Witness ==
    /\ ret # None
    /\ ret.intent_type \in {"TRIP_SUGGESTION", "ITINERARY_REQUEST"}
    /\ ret.confidence = 65
    /\ ret.path = "TASK_MODULES"

(***************************************************************************)
(* ResponseValidationLayer.verify_and_redact on its own: every response of *)
(* up to MaxUnits pieces, against every retrieval service                  *)
(***************************************************************************)
SourceTag == <<"[", "Source", ":", "places.json", "]">>
ResponseUnits ==
    {<<"Lonavala">>, <<"Hidden", "Palace">>, <<"Palace">>, <<"64">>, <<".">>,
     SourceTag}

RECURSIVE Concat(_)
Concat(units) == IF units = <<>> THEN <<>> ELSE Head(units) \o Concat(Tail(units))

Responses ==
    {Concat(us) : us \in UNION {[1..n -> ResponseUnits] : n \in 0..MaxUnits}}

InitValidator ==
    /\ \E response \in Responses, verifierRaises \in BOOLEAN :
       \E rag \in RagsFor(response, RagOutcomes) :
       \E ord \in OrdersFor(response, rag) :
          arg = [response |-> response, rag |-> rag, ord |-> ord,
                 verifierRaises |-> verifierRaises]
    /\ ret = None
    /\ sessions = <<>> /\ pc = "idle" /\ cur = NoCall /\ decision = None
    /\ result = None /\ pre = None /\ calls = <<>> /\ faults = {} /\ nmsgs = 0

VerifyAndRedact ==
    /\ ret = None
    /\ ret' = verify_and_redact(arg.response, arg.rag, arg.ord, arg.verifierRaises)
    /\ UNCHANGED <<sessions, pc, cur, decision, result, pre, calls, faults,
                   nmsgs, arg>>

NextValidator == VerifyAndRedact

SpecValidator == InitValidator /\ [][NextValidator]_vars

\* the lookups verify_and_redact made: one per candidate, none when the
\* verifier raised before its loop
LookedUp == IF arg.verifierRaises THEN {} ELSE Candidates(arg.response)

\* C6: every candidate whose Retrieval Service lookup raises is in
\* unsupported_claims, and verified is false: a retrieval error never makes a
\* candidate count as supported.
C6_RetrievalErrorFailsClosed ==
    ret # None =>
        \A c \in LookedUp :
            arg.rag[c] = "raise" =>
                /\ c \in Range(ret.unsupported_claims)
                /\ ret.verified = FALSE

C6_Witness ==
    /\ ret # None
    /\ \E c \in LookedUp :
          /\ arg.rag[c] = "raise"
          /\ c \in Range(ret.unsupported_claims)
    /\ \E c \in LookedUp : arg.rag[c] = "docs"
    /\ ret.verified = FALSE

\* the sentences of a text: its tokens between full stops
SentenceBounds(text) ==
    {p \in (1..(Len(text) + 1)) \X (0..Len(text)) :
        /\ p[1] <= p[2]
        /\ \A k \in p[1]..p[2] : text[k] # "."
        /\ (p[1] = 1 \/ text[p[1] - 1] = ".")
        /\ (p[2] = Len(text) \/ text[p[2] + 1] = ".")}
Sentences(text) == {SubSeq(text, p[1], p[2]) : p \in SentenceBounds(text)}

\* s occurs in text as a run of whole tokens
Occurs(s, text) ==
    \E i \in 1..(Len(text) - Len(s) + 1) : SubSeq(text, i, i + Len(s) - 1) = s

\* C7 as stated: verify_and_redact flags exactly the candidates without
\* documents, is unverified when one is flagged, wraps what it flags in
\* "[Unverified: ...]", and leaves intact every sentence whose content
\* retrieval supports, that is, every sentence all of whose candidates have
\* documents.
C7_SupportedSentencesIntact ==
    (ret # None /\ ~arg.verifierRaises) =>
        /\ Range(ret.unsupported_claims) = Unsupported(arg.response, arg.rag)
        /\ ret.verified = (Unsupported(arg.response, arg.rag) = {})
        /\ (~ret.verified => Occurs(<<"[", "Unverified", ":">>, ret.redacted))
        /\ \A sentence \in Sentences(arg.response) :
              (/\ Candidates(sentence) # {}
               /\ \A c \in Candidates(sentence) : arg.rag[c] = "docs")
              => Occurs(sentence, ret.redacted)

\* every claim of the text is directly followed by a "[Source: ...]" tag
AllClaimsTagged(text) ==
    \A i \in DOMAIN text :
        (/\ text[i] \in CapWords \cup NumWords
         /\ ~(i > 1 /\ text[i - 1] = "[")
         /\ ~(i < Len(text) /\ text[i + 1] \in CapWords))
        => /\ i + 3 <= Len(text)
           /\ SubSeq(text, i + 1, i + 3) = <<"[", "Source", ":">>

\* text begins with prefix
StartsWith(text, prefix) ==
    Len(prefix) <= Len(text) /\ SubSeq(text, 1, Len(prefix)) = prefix

\* C8 as stated: for a response whose every numeric or proper-noun claim is
\* directly followed by a [Source: ...] tag, verify_and_redact returns
\* verified = true and no unsupported claims, and its text is the input with
\* nothing altered before what is appended.
C8_TaggedResponseIsClean ==
    (ret # None /\ AllClaimsTagged(arg.response)) =>
        /\ ret.verified
        /\ ret.unsupported_claims = <<>>
        /\ StartsWith(ret.redacted, arg.response)

(***************************************************************************)
(* Properties of process_message (specification Spec)                      *)
(***************************************************************************)
\* the call in flight has passed the router
Routed == pc \in {"handle", "post", "done"} /\ decision # None

\* C2 as stated: the first message of a new session that holds no travel
\* keyword is classified OUT_OF_SCOPE with confidence 0.9 and path FALLBACK
\* on the fast path, without a Generation Service call for the
\* classification, and the reply is the fixed out-of-scope message.
C2_FirstMessageOutOfScope ==
    (/\ Routed
     /\ cur.is_new
     /\ Score(cur.user_input, TRAVEL_RELATED_KEYWORDS) = 0)
    => /\ decision.intent_type = "OUT_OF_SCOPE"
       /\ decision.confidence = 90
       /\ decision.path = "FALLBACK"
       /\ (pc = "handle" => "generation" \notin Range(calls))
       /\ (pc = "done" => /\ result.type = "out_of_scope"
                          /\ StartsWith(result.response, OutOfScopeMsg))

\* C3: when the structured refinement of process_message flags
\* critical_budget, the call returns validation_status rejected_budget, path
\* SHORT_CIRCUIT and has_answer false, and nothing but the refiner was
\* invoked; when the refinement inside dispatch flags it, dispatch returns the
\* same rejected_budget result and the intent extractor is not called.
C3_CriticalBudgetShortCircuits ==
    /\ (pc = "done" /\ cur.flags = "critical") =>
          /\ result.validation_status = "rejected_budget"
          /\ result.path = "SHORT_CIRCUIT"
          /\ result.has_answer = FALSE
          /\ result.response = ShortCircuitMsg
          /\ calls = <<"query_refiner">>
    /\ cur.dispatch_flags = "critical" =>
          /\ cur.dispatched = ShortCircuitResult
          /\ "intent_extractor" \notin Range(calls)

C3_Witness ==
    /\ pc = "done"
    /\ cur.flags = "critical"
    /\ result.path = "SHORT_CIRCUIT"
    /\ result.session_id = cur.session_id

\* C4: a result with path TASK_MODULES leaves post-processing as it entered
\* it, or with only the fixed closing sentence appended to its text; no
\* retrieval lookup and no verification or redaction is made for it.
C4_TaskModuleResultsBypassVerification ==
    (pc = "done" /\ pre # None /\ pre.path = "TASK_MODULES") =>
        /\ \/ result = pre
           \/ result = [pre EXCEPT !.response = @ \o ClosingSentence]
        /\ "verifier" \notin Range(calls)
        /\ "retrieval" \notin Range(calls)
        /\ cur.verified_against = {}
        /\ cur.unsupported = {}

C4_Witness ==
    /\ pc = "done"
    /\ pre # None
    /\ pre.path = "TASK_MODULES"
    /\ Candidates(pre.response) # {}
    /\ result = pre

\* C5 as stated: post-processing verifies or redacts RAG_ONLY results only;
\* FALLBACK and SHORT_CIRCUIT results are never handed to verification and
\* reach the user without "[Unverified: ...]" markers or the apology prefix.
C5_OnlyRagOnlyResultsAreVerified ==
    (pc = "done" /\ result.path \in {"FALLBACK", "SHORT_CIRCUIT"}) =>
        /\ "verifier" \notin Range(calls)
        /\ ~Occurs(<<"[", "Unverified", ":">>, result.response)
        /\ ~StartsWith(result.response, PolitePrefix)

\* C9 as stated: whenever the pattern detector or the cross-check flags at
\* least one claim of a generated response, the returned result has
\* validation_status "partial" and has_answer false.
C9_FlaggedMeansPartialWithoutAnswer ==
    (/\ pc = "done"
     /\ result.type = "general_chat"
     /\ (cur.unsourced # {} \/ cur.unsupported # {}))
    => /\ result.validation_status = "partial"
       /\ result.has_answer = FALSE

\* an exception arose in the post-processing of the call in flight
PostProcessingRaised == pc = "done" /\ pre # None /\ faults \cap PostFaults # {}

ServiceFaults ==
    {"conditional_refresh", "refine_structured", "llm_based_routing",
     "dispatch.refine_structured", "dispatch", "intent_extractor",
     "destination_suggester", "itinerary_builder", "retrieve_with_sources",
     "generate"}

\* C11 as stated: when the Generation or the Retrieval Service raises during
\* any step of process_message (KB refresh, refinement, slow-path
\* classification, module pipeline, retrieval or generation of the grounded
\* reply), the exception does not leave process_message.
C11_ServiceFailuresAreRecovered ==
    faults \cap ServiceFaults # {} => pc # "raised"

\* C14: every result process_message returns, on every path including module
\* failures and fallbacks, has module_used, validation_status, path and type
\* within their fixed sets and carries the id of the session that handled the
\* message, a key of the session map.
C14_ResultFieldsAreInTheirEnums ==
    pc = "done" =>
        /\ result.module_used \in {"modules", "rag_only", "clarification", "none"}
        /\ result.validation_status \in
               {"grounded", "partial", "failed", "rejected_budget"}
        /\ result.path \in {"TASK_MODULES", "RAG_ONLY", "FALLBACK", "SHORT_CIRCUIT"}
        /\ result.type \in
               {"suggestion", "itinerary", "general_chat", "clarification_needed",
                "no_answer", "out_of_scope", "error"}
        /\ result.session_id = cur.session_id
        /\ cur.session_id \in DOMAIN sessions

C14_Witness ==
    /\ pc = "done"
    /\ "dispatch" \in faults
    /\ result.type = "clarification_needed"
    /\ result.path = "FALLBACK"
    /\ result.session_id = cur.session_id

(***************************************************************************)
(* Properties of classify (specification SpecRouter)                       *)
(***************************************************************************)
\* the call took the slow path
SlowPath == ~FastPath(arg.query_lower, arg.conversation_history)

\* C12: when the slow path is taken and the Generation Service call raises or
\* its reply is not the expected JSON object, classify returns GENERAL_CHAT
\* with confidence 0.5 and path RAG_ONLY; classify returns a decision for
\* every utterance, history and reply.
C12_ClassificationFailureDegrades ==
    ret # None =>
        /\ ret.intent_type \in IntentTypes
        /\ (SlowPath /\ arg.reply = LlmFailure) =>
              /\ ret.intent_type = "GENERAL_CHAT"
              /\ ret.confidence = LlmFailureConfidence
              /\ ret.path = "RAG_ONLY"

C12_Witness ==
    /\ ret # None
    /\ SlowPath
    /\ arg.reply = LlmFailure
    /\ arg.conversation_history # <<>>
    /\ ret.confidence = 50
    /\ ret.path = "RAG_ONLY"

\* C13 as stated: two calls of classify with the same utterance and history
\* return the same intent_type, confidence and path, on the fast path and on
\* the slow path alike.
C13_ClassifyIsDeterministic ==
    (ret # None /\ decision # None) =>
        /\ decision.intent_type = ret.intent_type
        /\ decision.confidence = ret.confidence
        /\ decision.path = ret.path

\* C15 as stated: every decision classify returns, from the keyword fast path
\* or from the LLM slow path, has its confidence in [0, 1].
C15_ConfidenceInUnitInterval ==
    /\ ret # None => ret.confidence \in 0..100
    /\ decision # None => decision.confidence \in 0..100

(***************************************************************************)
(* The KB freshness check and the no-grounding reply (Spec)                *)
(***************************************************************************)
\* C18: during one process_message call conditional_refresh is invoked at
\* most once, and exactly once when refresh_kb is true, before anything else
\* of the pipeline is called; the session's knowledge_base_timestamp is
\* updated and its kb_refreshes counter incremented by one if and only if
\* that check reported a refresh.
C18_KbCheckOncePerMessage ==
    pc # "idle" =>
        LET session == sessions[cur.session_id]
        IN  /\ cur.kb_checks = IF cur.refresh_kb THEN 1 ELSE 0
            /\ pc = "refine" => calls = <<>>
            /\ cur.kb_reported => cur.refresh_kb
            /\ session.validation_stats.kb_refreshes =
                  cur.kb_before.kb_refreshes + (IF cur.kb_reported THEN 1 ELSE 0)
            /\ session.knowledge_base_timestamp =
                  IF cur.kb_reported THEN nmsgs
                  ELSE cur.kb_before.knowledge_base_timestamp

C18_Witness ==
    /\ pc = "done"
    /\ cur.refresh_kb
    /\ cur.kb_reported
    /\ cur.kb_checks = 1
    /\ sessions[cur.session_id].validation_stats.kb_refreshes = 1
    /\ sessions[cur.session_id].knowledge_base_timestamp = 1
    /\ "router" \in Range(calls)

\* the call in flight took the RAG_ONLY path and its retrieval returned no
\* documents: _handle_general_chat answered with _handle_no_answer
NoDocuments == pc = "done" /\ pre # None /\ pre.type = "no_answer"

\* the calls made from the retrieval of _handle_general_chat on
CallsFromRetrieval ==
    LET first == CHOOSE i \in DOMAIN calls :
                    calls[i] = "retrieval" /\ \A j \in 1..(i - 1) : calls[j] # "retrieval"
    IN  SubSeq(calls, first, Len(calls))

\* C19 as stated: on the RAG_ONLY path, when retrieval returns no documents
\* for the user message, the Generation Service is not called to answer it
\* and the result is the no-grounding reply: type no_answer, has_answer
\* false, sources empty, validation_status failed.
C19_NoDocumentsMeansNoAnswer ==
    NoDocuments =>
        /\ "generation" \notin Range(CallsFromRetrieval)
        /\ result.type = "no_answer"
        /\ result.has_answer = FALSE
        /\ result.sources = <<>>
        /\ result.validation_status = "failed"

(***************************************************************************)
(* The session map on its own: get_or_create_session as process_message    *)
(* uses it, and end_session (src/modules/chatbot_engine.py)                *)
(***************************************************************************)
MaxSessionCalls == 3    \* process_message calls in one run of SpecSessions

\* get_or_create_session without the lookup: a new session for every call
get_or_create_session_always_new(map, session_id, fresh) ==
    [sessions |-> (fresh :> NewSession) @@ map, session_id |-> fresh]

\* get_or_create_session; map is self.sessions, session_id 0 stands for None
\* (or an empty string), fresh for the uuid4 of the new ChatSession
get_or_create_session(map, session_id, fresh) ==
    IF session_id # 0 /\ session_id \in DOMAIN map
    THEN [sessions |-> map, session_id |-> session_id]
    ELSE [sessions |-> (fresh :> NewSession) @@ map, session_id |-> fresh]

\* end_session: del self.sessions[session_id] when present
end_session(map, session_id) ==
    IF session_id \in DOMAIN map
    THEN [sessions |-> [k \in DOMAIN map \ {session_id} |-> map[k]], ended |-> TRUE]
    ELSE [sessions |-> map, ended |-> FALSE]

\* process_message, lines 169-172: what one message does to its session
\* before the KB check
session_prefix(session, user_input) ==
    [add_message(session, "User", user_input)
        EXCEPT !.validation_stats.total_messages = @ + 1]

SessionInputs == {{}, {"visit"}}

InitSessions ==
    /\ sessions = <<>>
    /\ arg = [op |-> "none", session_id |-> 0]
    /\ ret = None
    /\ pre = <<>>
    /\ calls = <<>>
    /\ nmsgs = 0
    /\ pc = "idle" /\ cur = NoCall /\ decision = None /\ result = None
    /\ faults = {}

\* the ids a caller can hold: none (0), one never issued, and every id a
\* result ever carried, ended or not
IssuedIds == {0, UnknownSessionId} \cup Range(calls)

\* process_message seen from the session map: the session is found or
\* created and the message appended (lines 169-172); the rest of the call
\* leaves the map alone and either returns a result with the session's id
\* (line 233) or lets an exception through.  calls lists the ids created.
ProcessMessageSession(user_input, session_id, returns) ==
    /\ nmsgs < MaxSessionCalls
    /\ LET g == get_or_create_session(sessions, session_id, Len(calls) + 1)
           sid == g.session_id
       IN  /\ sessions' = [g.sessions EXCEPT
                              ![sid] = session_prefix(@, user_input)]
           /\ calls' = IF sid \in DOMAIN sessions THEN calls
                       ELSE Append(calls, sid)
           /\ ret' = IF returns THEN [session_id |-> sid] ELSE None
    /\ arg' = [op |-> "process_message", session_id |-> session_id]
    /\ pre' = sessions
    /\ nmsgs' = nmsgs + 1
    /\ UNCHANGED <<pc, cur, decision, result, faults>>

EndSession(session_id) ==
    /\ LET e == end_session(sessions, session_id)
       IN  /\ sessions' = e.sessions
           /\ ret' = [ended |-> e.ended]
    /\ arg' = [op |-> "end_session", session_id |-> session_id]
    /\ pre' = sessions
    /\ UNCHANGED <<pc, cur, decision, result, calls, faults, nmsgs>>

NextSessions ==
    \/ \E user_input \in SessionInputs, session_id \in IssuedIds,
          returns \in BOOLEAN :
          ProcessMessageSession(user_input, session_id, returns)
    \/ \E session_id \in IssuedIds \ {0} : EndSession(session_id)

SpecSessions == InitSessions /\ [][NextSessions]_vars

\* C16: a process_message call without a session id, or with an id that is
\* not a key of the session map, adds exactly one new session to the map and
\* returns its id; a call with an id that is a key reuses that session and
\* adds none; the id a result carries is a key of the map; and a key leaves
\* the map only by an end_session call for it.
C16_SessionLifecycle ==
    /\ arg.op = "process_message" =>
          LET known == arg.session_id # 0 /\ arg.session_id \in DOMAIN pre
              added == DOMAIN sessions \ DOMAIN pre
          IN  /\ DOMAIN pre \subseteq DOMAIN sessions
              /\ known =>
                    /\ added = {}
                    /\ ret # None => ret.session_id = arg.session_id
                    /\ sessions[arg.session_id].message_history =
                          Append(pre[arg.session_id].message_history,
                                 sessions[arg.session_id].message_history[
                                     Len(sessions[arg.session_id].message_history)])
              /\ ~known =>
                    /\ Cardinality(added) = 1
                    /\ ret # None => ret.session_id \in added
                    /\ \A n \in added : Len(sessions[n].message_history) = 1
              /\ ret # None => ret.session_id \in DOMAIN sessions
              /\ \A k \in DOMAIN pre \ {arg.session_id} : sessions[k] = pre[k]
    /\ arg.op = "end_session" =>
          /\ DOMAIN sessions = DOMAIN pre \ {arg.session_id}
          /\ \A k \in DOMAIN sessions : sessions[k] = pre[k]

C16_Witness ==
    /\ arg.op = "process_message"
    /\ arg.session_id \in DOMAIN pre
    /\ ret # None
    /\ ret.session_id = arg.session_id
    /\ Len(sessions[arg.session_id].message_history) = 2
    /\ Cardinality(DOMAIN sessions) = 1
    /\ Len(calls) = 2

(***************************************************************************)
(* ChatSession.add_message on its own, in both session classes             *)
(***************************************************************************)
MaxAdds == 3            \* add_message calls in one run of SpecHistory

\* a message's content is a number standing for its text: the entries a
\* session starts with carry their position, the ones added carry 0 or -1
HistoryRoles == {"User", "Assistant"}
AddedContents == {0, -1}
StoredHistory(n) == [i \in 1..n |-> [role |-> "User", content |-> i]]

\* a session that already received up to HistoryCap messages; calls lists
\* every message the session was ever given
InitHistory ==
    /\ \E n \in 0..HistoryCap, class \in {"chatbot_core", "chatbot_engine"} :
          /\ sessions = << [NewSession EXCEPT !.message_history = StoredHistory(n)] >>
          /\ calls = StoredHistory(n)
          /\ arg = [class |-> class]
    /\ nmsgs = 0
    /\ ret = None /\ pre = None
    /\ pc = "idle" /\ cur = NoCall /\ decision = None /\ result = None
    /\ faults = {}

AddMessage(role, content) ==
    /\ nmsgs < MaxAdds
    /\ sessions' = [sessions EXCEPT ![1] =
                       IF arg.class = "chatbot_core"
                       THEN add_message(@, role, content)
                       ELSE add_message_engine(@, role, content)]
    /\ calls' = Append(calls, [role |-> role, content |-> content])
    /\ nmsgs' = nmsgs + 1
    /\ UNCHANGED <<pc, cur, decision, result, pre, faults, arg, ret>>

NextHistory ==
    \E role \in HistoryRoles, content \in AddedContents : AddMessage(role, content)

SpecHistory == InitHistory /\ [][NextHistory]_vars

\* C17: after any sequence of add_message calls, message_history holds at
\* most 20 entries, and they are the most recently added ones in the order
\* they were added: on overflow the oldest entry is the one dropped.
C17_HistoryIsMostRecentTwenty ==
    /\ Len(sessions[1].message_history) <= HistoryCap
    /\ sessions[1].message_history = LastN(calls, HistoryCap)

C17_Witness ==
    /\ nmsgs >= 2
    /\ Len(calls) = HistoryCap + 2
    /\ Len(sessions[1].message_history) = HistoryCap
    /\ sessions[1].message_history[1].content = 3
    /\ sessions[1].message_history[HistoryCap].content = -1
    /\ arg.class = "chatbot_core"

(***************************************************************************)
(* Two process_message calls in flight at once (api_adapter.handle_message *)
(* called from two request threads of the host on the one shared core).    *)
(* The statements that write the session, lines 169-172, are taken one     *)
(* interpreter step at a time; no statement of the core or of the adapter  *)
(* takes a lock.  On the clarification and out-of-scope paths these are    *)
(* all the writes a call makes to its session.                             *)
(***************************************************************************)
Threads == {1, 2}

\* the session map the two calls find: empty, or one session that received
\* one message, or one whose history is full
InitialMaps ==
    {<<>>} \cup
    {<< [NewSession EXCEPT !.message_history = StoredHistory(n),
                           !.validation_stats.total_messages = n] >> :
        n \in {1, HistoryCap}}

InitConcurrent ==
    /\ sessions \in InitialMaps
    /\ arg = [sessions |-> sessions]
    /\ calls = [i \in 1..Len(sessions) |-> i]
    /\ pc = [t \in Threads |-> "start"]
    /\ \E ids \in [Threads -> {0} \cup DOMAIN sessions],
          inputs \in [Threads -> AddedContents] :
          cur = [t \in Threads |->
                    [user_input |-> inputs[t], session_id |-> ids[t],
                     sid |-> 0, loaded |-> 0]]
    /\ ret = None /\ pre = None /\ decision = None /\ result = None
    /\ faults = {} /\ nmsgs = 0

\* line 169: session = self.get_or_create_session(session_id)
GetSession(t) ==
    /\ pc[t] = "start"
    /\ LET g == get_or_create_session(sessions, cur[t].session_id, Len(calls) + 1)
       IN  /\ sessions' = g.sessions
           /\ calls' = IF g.session_id \in DOMAIN sessions THEN calls
                       ELSE Append(calls, g.session_id)
           /\ cur' = [cur EXCEPT ![t].sid = g.session_id]
    /\ pc' = [pc EXCEPT ![t] = "append"]
    /\ UNCHANGED <<decision, result, pre, faults, nmsgs, arg, ret>>

\* line 64: self.message_history.append({"role": role, "content": content})
AppendMessage(t) ==
    /\ pc[t] = "append"
    /\ sessions' = [sessions EXCEPT ![cur[t].sid].message_history =
                       Append(@, [role |-> "User", content |-> cur[t].user_input])]
    /\ pc' = [pc EXCEPT ![t] = "check"]
    /\ UNCHANGED <<cur, decision, result, pre, calls, faults, nmsgs, arg, ret>>

\* line 65: if len(self.message_history) > 20
CheckLength(t) ==
    /\ pc[t] = "check"
    /\ pc' = [pc EXCEPT ![t] =
                IF Len(sessions[cur[t].sid].message_history) > HistoryCap
                THEN "pop" ELSE "load"]
    /\ UNCHANGED <<sessions, cur, decision, result, pre, calls, faults, nmsgs,
                   arg, ret>>

\* line 66: self.message_history.pop(0)
PopOldest(t) ==
    /\ pc[t] = "pop"
    /\ sessions' = [sessions EXCEPT ![cur[t].sid].message_history = Tail(@)]
    /\ pc' = [pc EXCEPT ![t] = "load"]
    /\ UNCHANGED <<cur, decision, result, pre, calls, faults, nmsgs, arg, ret>>

\* line 172, session.validation_stats["total_messages"] += 1: the read
LoadTotal(t) ==
    /\ pc[t] = "load"
    /\ cur' = [cur EXCEPT ![t].loaded =
                  sessions[cur[t].sid].validation_stats.total_messages]
    /\ pc' = [pc EXCEPT ![t] = "store"]
    /\ UNCHANGED <<sessions, decision, result, pre, calls, faults, nmsgs, arg, ret>>

\* line 172: the write of the value read plus one
StoreTotal(t) ==
    /\ pc[t] = "store"
    /\ sessions' = [sessions EXCEPT
                       ![cur[t].sid].validation_stats.total_messages =
                           cur[t].loaded + 1]
    /\ pc' = [pc EXCEPT ![t] = "done"]
    /\ UNCHANGED <<cur, decision, result, pre, calls, faults, nmsgs, arg, ret>>

NextConcurrent ==
    \E t \in Threads :
        \/ GetSession(t)
        \/ AppendMessage(t)
        \/ CheckLength(t)
        \/ PopOldest(t)
        \/ LoadTotal(t)
        \/ StoreTotal(t)

SpecConcurrent == InitConcurrent /\ [][NextConcurrent]_vars

\* both calls have made their session writes
BothDone == \A t \in Threads : pc[t] = "done"

\* the session after the call of thread a and then the call of thread b
SerialOutcome(session, a, b) ==
    session_prefix(session_prefix(session, cur[a].user_input), cur[b].user_input)

\* C20 as stated: two calls in flight for the same session never interleave
\* their writes to it: the final session equals the one left by running the
\* two calls in some serial order; and two concurrent first calls (no session
\* id yet) of a conversation do not register two sessions.
C20_SameSessionCallsAreSerialized ==
    BothDone =>
        /\ (cur[1].session_id # 0 /\ cur[1].session_id = cur[2].session_id) =>
              sessions[cur[1].sid] \in
                  {SerialOutcome(arg.sessions[cur[1].sid], 1, 2),
                   SerialOutcome(arg.sessions[cur[1].sid], 2, 1)}
        /\ (cur[1].session_id = 0 /\ cur[2].session_id = 0) =>
              cur[1].sid = cur[2].sid

(***************************************************************************)
(* Two sessions on one engine: what the messages of session A do to        *)
(* session B.  The system is run twice side by side, cur with the messages *)
(* of A and pre without them; B sends the same messages to both.  The      *)
(* external services answer as functions of what they are asked.           *)
(***************************************************************************)
MaxIsolationSteps == 3  \* messages and KB changes in one run of SpecIsolation

\* ResponseVariationGenerator.DESTINATION_TEMPLATES
DESTINATION_TEMPLATES ==
    <<"description_focused", "practical_info", "experience_focused",
      "comparison", "unique_angle">>

\* the places a destination question can name
Places == {"lonavala", "matheran"}

SessionA == 1
SessionB == 2

\* ResponseVariationCache.get_topic_count
get_topic_count(topic_history, topic) ==
    IF topic \in DOMAIN topic_history THEN topic_history[topic] ELSE 0

\* generate_varied_destination_response: the template rotates with the
\* engine-wide topic count; the Generation Service answers the prompt it is
\* given, and add_response counts the topic
generate_varied_destination_response(topic_history, place_name) ==
    LET topic_count == get_topic_count(topic_history, place_name)
        template == DESTINATION_TEMPLATES[
                        (topic_count % Len(DESTINATION_TEMPLATES)) + 1]
    IN  [response |-> <<template, place_name>>,
         topic_history |-> (place_name :> (topic_count + 1)) @@ topic_history]

\* WanderAIChatbotEngineV2.process_message for a DESTINATION_INFO question
\* about place_name (lines 124-131 and _handle_general_chat)
engine_process_message(system, sid, place_name) ==
    LET s1 == [add_message_engine(system.sessions[sid], "User", place_name)
                 EXCEPT !.knowledge_base_timestamp = system.kb_version]
        g == generate_varied_destination_response(system.topic_history, place_name)
        s2 == add_message_engine(s1, "Bot", g.response)
    IN  [system |-> [system EXCEPT !.sessions[sid] = s2,
                                   !.topic_history = g.topic_history],
         result |-> [response |-> g.response, type |-> "general_chat",
                     kb_timestamp |-> system.kb_version]]

\* WanderAIChatbotCoreV3.process_message, lines 169-180, with refresh_kb true:
\* conditional_refresh reports a change of the store once, to the call that
\* asks first.  The reply is what the services answer for the message.
core_process_message(system, sid, place_name) ==
    LET s1 == session_prefix(system.sessions[sid], place_name)
        s2 == IF system.kb_pending
              THEN record_validation_event(
                       [s1 EXCEPT !.knowledge_base_timestamp = system.kb_version],
                       "kb_refreshes")
              ELSE s1
    IN  [system |-> [system EXCEPT !.sessions[sid] = s2, !.kb_pending = FALSE],
         result |-> [response |-> <<place_name>>, type |-> "general_chat"]]

\* process_message of the class under test
class_process_message(system, sid, place_name) ==
    IF arg.class = "chatbot_engine"
    THEN engine_process_message(system, sid, place_name)
    ELSE core_process_message(system, sid, place_name)

InitIsolation ==
    /\ arg \in {[class |-> "chatbot_core"], [class |-> "chatbot_engine"]}
    /\ cur = [sessions |-> (SessionA :> NewSession) @@ (SessionB :> NewSession),
              topic_history |-> <<>>, kb_pending |-> FALSE, kb_version |-> 0]
    /\ pre = [sessions |-> (SessionB :> NewSession),
              topic_history |-> <<>>, kb_pending |-> FALSE, kb_version |-> 0]
    /\ result = None
    /\ ret = None
    /\ nmsgs = 0
    /\ sessions = <<>> /\ pc = "idle" /\ decision = None
    /\ calls = <<>> /\ faults = {}

\* a message of session B: both systems process it
MessageOfB(place_name) ==
    /\ nmsgs < MaxIsolationSteps
    /\ LET with == class_process_message(cur, SessionB, place_name)
           without == class_process_message(pre, SessionB, place_name)
       IN  /\ cur' = with.system
           /\ result' = with.result
           /\ pre' = without.system
           /\ ret' = without.result
    /\ calls' = Append(calls, "B")
    /\ nmsgs' = nmsgs + 1
    /\ UNCHANGED <<sessions, pc, decision, faults, arg>>

\* a message of session A: only the system that serves A processes it
MessageOfA(place_name) ==
    /\ nmsgs < MaxIsolationSteps
    /\ cur' = class_process_message(cur, SessionA, place_name).system
    /\ calls' = Append(calls, "A")
    /\ nmsgs' = nmsgs + 1
    /\ UNCHANGED <<sessions, pc, decision, result, pre, faults, arg, ret>>

\* the knowledge base changes on disk (a webhook update), for both systems
KbChanged ==
    /\ nmsgs < MaxIsolationSteps
    /\ cur' = [cur EXCEPT !.kb_pending = TRUE, !.kb_version = @ + 1]
    /\ pre' = [pre EXCEPT !.kb_pending = TRUE, !.kb_version = @ + 1]
    /\ nmsgs' = nmsgs + 1
    /\ UNCHANGED <<sessions, pc, decision, result, calls, faults, arg, ret>>

NextIsolation ==
    \/ \E place_name \in Places : MessageOfB(place_name)
    \/ \E place_name \in Places : MessageOfA(place_name)
    \/ KbChanged

SpecIsolation == InitIsolation /\ [][NextIsolation]_vars

\* C21 as stated: the state of session B (history, counters,
\* knowledge_base_timestamp) and the results B receives for its messages are
\* the same whether or not messages of session A are processed in between.
C21_SessionsAreIsolated ==
    /\ cur.sessions[SessionB] = pre.sessions[SessionB]
    /\ result = ret

\* ------------------------------------------------------------------
\* The command-line chatbot, src/chatbot.py: WanderAIChatbot.run reads
\* one input per iteration and routes it through the frustration layer,
\* the clarification layer, the query layers and the handler of the
\* current state.  A bot is the record of the object's fields; every
\* operator that calls a module (refiner, extractor, suggester, builder,
\* random) returns the SET of bots the call can leave behind.
\* ------------------------------------------------------------------
MaxCliInputs == 4       \* inputs read in one run of SpecCli

\* the inputs typed by the user (already stripped, lower case) and the
\* names of the destinations of the knowledge base (lower case)
CliInputs == {"", "exit", "damn", "yes", "yes damn", "no", "1", "surprise me",
              "romantic date", "romantic trip", "beach trip", "lonavala trek", "hello"}
DestinationNames == {"lonavala", "alibaug beach"}

\* Python's string primitives, tabulated over the texts of the model:
\* Substrings(text) are the keywords of chatbot.py, inputs, words and
\* destination names that occur in text (kw in text), Prefixes(text) those
\* it starts with (text.startswith(kw))
Texts == {"", "1", "alibaug beach", "beach", "beach trip", "damn", "date", "error", "exit", "hello", "lonavala", "lonavala trek", "me", "no", "romantic", "romantic date", "romantic trip", "surprise", "surprise me", "trek", "trip", "yes", "yes damn"}
Substrings(text) ==
    CASE text = "" -> {}
      [] text = "1" -> {"1"}
      [] text = "alibaug beach" -> {"alibaug", "alibaug beach", "beach"}
      [] text = "beach" -> {"beach"}
      [] text = "beach trip" -> {"beach", "beach trip", "trip"}
      [] text = "damn" -> {"dam", "damn", "n"}
      [] text = "date" -> {"date"}
      [] text = "error" -> {"error"}
      [] text = "exit" -> {"exit"}
      [] text = "hello" -> {"hello"}
      [] text = "lonavala" -> {"lonavala", "n"}
      [] text = "lonavala trek" -> {"lonavala", "lonavala trek", "n", "trek"}
      [] text = "me" -> {"me"}
      [] text = "no" -> {"n", "no"}
      [] text = "romantic" -> {"n", "romantic"}
      [] text = "romantic date" -> {"date", "n", "romantic", "romantic date"}
      [] text = "romantic trip" -> {"n", "romantic", "romantic trip", "trip"}
      [] text = "surprise" -> {"surprise"}
      [] text = "surprise me" -> {"me", "surprise", "surprise me"}
      [] text = "trek" -> {"trek"}
      [] text = "trip" -> {"trip"}
      [] text = "yes" -> {"y", "yes"}
      [] text = "yes damn" -> {"dam", "damn", "n", "y", "yes", "yes damn"}
Prefixes(text) ==
    CASE text = "" -> {}
      [] text = "1" -> {"1"}
      [] text = "alibaug beach" -> {"alibaug", "alibaug beach"}
      [] text = "beach" -> {"beach"}
      [] text = "beach trip" -> {"beach", "beach trip"}
      [] text = "damn" -> {"dam", "damn"}
      [] text = "date" -> {"date"}
      [] text = "error" -> {"error"}
      [] text = "exit" -> {"exit"}
      [] text = "hello" -> {"hello"}
      [] text = "lonavala" -> {"lonavala"}
      [] text = "lonavala trek" -> {"lonavala", "lonavala trek"}
      [] text = "me" -> {"me"}
      [] text = "no" -> {"n", "no"}
      [] text = "romantic" -> {"romantic"}
      [] text = "romantic date" -> {"romantic", "romantic date"}
      [] text = "romantic trip" -> {"romantic", "romantic trip"}
      [] text = "surprise" -> {"surprise"}
      [] text = "surprise me" -> {"surprise", "surprise me"}
      [] text = "trek" -> {"trek"}
      [] text = "trip" -> {"trip"}
      [] text = "yes" -> {"y", "yes"}
      [] text = "yes damn" -> {"y", "yes", "yes damn"}
split(text) ==
    CASE text = "" -> <<>>
      [] text = "1" -> <<"1">>
      [] text = "alibaug beach" -> <<"alibaug", "beach">>
      [] text = "beach" -> <<"beach">>
      [] text = "beach trip" -> <<"beach", "trip">>
      [] text = "damn" -> <<"damn">>
      [] text = "date" -> <<"date">>
      [] text = "error" -> <<"error">>
      [] text = "exit" -> <<"exit">>
      [] text = "hello" -> <<"hello">>
      [] text = "lonavala" -> <<"lonavala">>
      [] text = "lonavala trek" -> <<"lonavala", "trek">>
      [] text = "me" -> <<"me">>
      [] text = "no" -> <<"no">>
      [] text = "romantic" -> <<"romantic">>
      [] text = "romantic date" -> <<"romantic", "date">>
      [] text = "romantic trip" -> <<"romantic", "trip">>
      [] text = "surprise" -> <<"surprise">>
      [] text = "surprise me" -> <<"surprise", "me">>
      [] text = "trek" -> <<"trek">>
      [] text = "trip" -> <<"trip">>
      [] text = "yes" -> <<"yes">>
      [] text = "yes damn" -> <<"yes", "damn">>
len(text) ==
    CASE text = "" -> 0
      [] text = "1" -> 1
      [] text = "alibaug beach" -> 13
      [] text = "beach" -> 5
      [] text = "beach trip" -> 10
      [] text = "damn" -> 4
      [] text = "date" -> 4
      [] text = "error" -> 5
      [] text = "exit" -> 4
      [] text = "hello" -> 5
      [] text = "lonavala" -> 8
      [] text = "lonavala trek" -> 13
      [] text = "me" -> 2
      [] text = "no" -> 2
      [] text = "romantic" -> 8
      [] text = "romantic date" -> 13
      [] text = "romantic trip" -> 13
      [] text = "surprise" -> 8
      [] text = "surprise me" -> 11
      [] text = "trek" -> 4
      [] text = "trip" -> 4
      [] text = "yes" -> 3
      [] text = "yes damn" -> 8
alnum_count(text) ==
    CASE text = "" -> 0
      [] text = "1" -> 1
      [] text = "alibaug beach" -> 12
      [] text = "beach" -> 5
      [] text = "beach trip" -> 9
      [] text = "damn" -> 4
      [] text = "date" -> 4
      [] text = "error" -> 5
      [] text = "exit" -> 4
      [] text = "hello" -> 5
      [] text = "lonavala" -> 8
      [] text = "lonavala trek" -> 12
      [] text = "me" -> 2
      [] text = "no" -> 2
      [] text = "romantic" -> 8
      [] text = "romantic date" -> 12
      [] text = "romantic trip" -> 12
      [] text = "surprise" -> 8
      [] text = "surprise me" -> 10
      [] text = "trek" -> 4
      [] text = "trip" -> 4
      [] text = "yes" -> 3
      [] text = "yes damn" -> 7
distinct_chars(text) ==
    CASE text = "" -> 0
      [] text = "1" -> 1
      [] text = "alibaug beach" -> 10
      [] text = "beach" -> 5
      [] text = "beach trip" -> 10
      [] text = "damn" -> 4
      [] text = "date" -> 4
      [] text = "error" -> 3
      [] text = "exit" -> 4
      [] text = "hello" -> 4
      [] text = "lonavala" -> 5
      [] text = "lonavala trek" -> 10
      [] text = "me" -> 2
      [] text = "no" -> 2
      [] text = "romantic" -> 8
      [] text = "romantic date" -> 11
      [] text = "romantic trip" -> 10
      [] text = "surprise" -> 6
      [] text = "surprise me" -> 8
      [] text = "trek" -> 4
      [] text = "trip" -> 4
      [] text = "yes" -> 3
      [] text = "yes damn" -> 8
row_share(word) ==
    CASE word = "1" -> 0
      [] word = "beach" -> 40
      [] word = "damn" -> 50
      [] word = "date" -> 50
      [] word = "exit" -> 75
      [] word = "hello" -> 60
      [] word = "lonavala" -> 62
      [] word = "me" -> 50
      [] word = "no" -> 50
      [] word = "romantic" -> 50
      [] word = "surprise" -> 75
      [] word = "trek" -> 75
      [] word = "trip" -> 100
      [] word = "yes" -> 66
alpha_len(word) ==
    CASE word = "1" -> 0
      [] word = "beach" -> 5
      [] word = "damn" -> 4
      [] word = "date" -> 4
      [] word = "exit" -> 4
      [] word = "hello" -> 5
      [] word = "lonavala" -> 8
      [] word = "me" -> 2
      [] word = "no" -> 2
      [] word = "romantic" -> 8
      [] word = "surprise" -> 8
      [] word = "trek" -> 4
      [] word = "trip" -> 4
      [] word = "yes" -> 3
isdigit(text) == text \in {"1"}
int_parses(text) == text \in {"1"}
int(text) ==
    CASE text = "1" -> 1
dest_name_clean(name) ==
    CASE name = "lonavala" -> "lonavala"
      [] name = "alibaug beach" -> "alibaug"

In(kw, text) == kw \in Substrings(text)
AnyIn(kws, text) == kws \cap Substrings(text) # {}
Has(lst, x) == \E i \in 1..Len(lst) : lst[i] = x

\* LAYER 0 (chatbot.py 61-85)
frustration_anger == {"fuck", "damn", "shit", "crap", "pissed", "bullshit", "motherfucker",
                      "suck", "useless", "garbage", "trash"}
frustration_short_curses == {"the fuck", "what the fuck", "fuck this", "damn it",
                             "mother fucker", "holy shit"}
is_frustration_or_emotion(query) ==
    \/ AnyIn(frustration_short_curses, query)
    \/ \E i \in 1..Len(split(query)) : split(query)[i] \in frustration_anger
    \/ query \in frustration_anger

\* LAYER 1 (chatbot.py 98-120): the types in the order of the dict
type_keywords == <<
    [type |-> "hiking",    keywords |-> {"trek", "hike", "hiking", "mountain", "peak", "trail", "hill"}],
    [type |-> "romantic",  keywords |-> {"date", "girlfriend", "boyfriend", "romantic", "couple", "lover", "makeout"}],
    [type |-> "family",    keywords |-> {"family", "kids", "children", "parents", "kids trip"}],
    [type |-> "adventure", keywords |-> {"adventure", "extreme", "paragliding", "rafting", "bungee"}],
    [type |-> "beach",     keywords |-> {"beach", "sea", "coastal", "ocean", "shore"}],
    [type |-> "heritage",  keywords |-> {"heritage", "history", "historical", "ancient", "temple", "fort", "monument"}],
    [type |-> "budget",    keywords |-> {"budget", "cheap", "affordable", "backpack", "minimal"}],
    [type |-> "luxury",    keywords |-> {"luxury", "5-star", "resort", "premium", "fancy"}],
    [type |-> "cafe",      keywords |-> {"cafe", "coffee", "restaurant", "dining", "food"}],
    [type |-> "city",      keywords |-> {"city", "urban", "town", "metro"}] >>
classify_query_type(query) ==
    LET detected == SelectSeq(type_keywords, LAMBDA e : AnyIn(e.keywords, query))
        detected_types == [i \in 1..Len(detected) |-> detected[i].type]
    IN  IF detected_types # <<>> THEN detected_types ELSE <<"general">>

\* str(self.current_intent).lower(): the text of a TravelIntent lists its
\* field names, "start_date" among them (m1_intent_extractor.py 20), and
\* its interests
str_of_intent(intent) == {"date"} \cup intent.interests

\* LAYER 1b (chatbot.py 122-154)
trip_switch_keywords == {"also", "now", "instead", "different", "but what about",
                         "what if", "can you", "plan another", "suggest", "new trip",
                         "also plan", "next", "additionally", "furthermore"}
is_query_independent(bot, current_query) ==
    IF isdigit(current_query) \/ len(current_query) <= 2 THEN FALSE
    ELSE IF bot.current_intent = None THEN TRUE
    ELSE IF AnyIn(trip_switch_keywords, current_query) THEN TRUE
    ELSE LET current_types == classify_query_type(current_query)
             prev_is_romantic == {"romantic", "date", "girlfriend", "boyfriend"}
                                     \cap str_of_intent(bot.current_intent) # {}
             curr_is_romantic == Has(current_types, "romantic") \/ Has(current_types, "date")
         IN  prev_is_romantic # curr_is_romantic

\* LAYER 1c (chatbot.py 156-177): whether a clarification is needed
needs_clarification(query, query_types) ==
    \/ Has(query_types, "budget") /\ Has(query_types, "luxury")
    \/ query_types = <<"cafe">>
    \/ /\ Has(query_types, "romantic") /\ Len(query_types) = 1
       /\ ~In("trip", query) /\ ~In("destination", query)
    \/ /\ Has(query_types, "cafe") /\ Has(query_types, "romantic")
       /\ ~In("destination", query) /\ ~In("trip", query)

\* LAYER 2 (chatbot.py 179-201)
is_travel_trip_query(query, query_types) ==
    IF /\ query_types = <<"cafe">>
       /\ ~AnyIn({"trip", "destination", "travel", "visit", "getaway", "retreat"}, query)
    THEN FALSE
    ELSE IF AnyIn({"trip", "destination", "travel", "visit", "getaway", "retreat",
                   "itinerary", "days", "nights", "accommodation", "stay"}, query)
    THEN TRUE
    ELSE \E i \in 1..Len(query_types) :
            query_types[i] \in {"hiking", "romantic", "family", "adventure", "beach",
                                "heritage", "budget", "luxury"}

\* LAYER 3 (chatbot.py 203-219)
should_reset_state(bot, current_query) ==
    IF bot.state = "suggestion" THEN FALSE
    ELSE \/ is_query_independent(bot, current_query)
         \/ AnyIn({"plan", "suggest", "find", "another", "trip", "destination"}, current_query)

\* chatbot.py 221-274
whitelist_words == {"rupees", "rupee", "euros", "euro", "pounds", "dollars",
                    "yen", "currency", "budget", "trip", "trek", "beach",
                    "mountain", "river", "temple", "restaurant", "hotel",
                    "proper", "itinerary", "itineary", "plans", "mumbai"}
is_gibberish_or_spam(user_input) ==
    \/ len(user_input) < 3
    \/ alnum_count(user_input) < 2
    \/ distinct_chars(user_input) < 3 /\ len(user_input) > 5
    \/ \E i \in 1..Len(split(user_input)) :
          LET word == split(user_input)[i]
          IN  /\ alpha_len(word) >= 7
              /\ word \notin whitelist_words
              /\ row_share(word) >= 95

\* chatbot.py 276-301
is_purely_interrogative(query) ==
    IF AnyIn({"plan", "trip", "travel", "visit", "go to", "trek", "hike", "getaway",
              "weekend", "itinerary", "budget", "days", "suggest", "recommend"}, query)
    THEN FALSE
    ELSE AnyIn({"what is", "tell me about", "information about", "history of",
                "capital of", "population of", "how many", "when was", "why is",
                "how far is"}, query)

\* chatbot.py 303-332; a missing number is 0, which is as false as None
validate_extracted_intent(intent) ==
    LET has_interests == intent.interests # {}
        has_duration == intent.duration_days > 0
        has_group == intent.group_size > 0
    IN  /\ has_interests \/ has_duration \/ has_group
        /\ ~(has_duration /\ intent.duration_days > 365)
        /\ ~(has_group /\ intent.group_size > 100)
        /\ intent.interests \cap {"gibberish", "random", "asdf", "xyz", "test"} = {}

\* chatbot.py 334-361
is_out_of_scope(user_input) ==
    IF AnyIn({"trek", "hike", "travel", "trip", "destination", "place", "visit", "explore",
              "beach", "mountain", "hill", "fort", "weekend", "itinerary", "plan",
              "suggest", "getaway"}, user_input)
    THEN FALSE
    ELSE AnyIn({"joke", "meme", "recipe", "cook", "cooking", "code", "programming",
                "math", "politics", "sports", "movie", "music", "song", "love",
                "marry", "poem", "story", "book"}, user_input)

\* chatbot.py 363-390
has_travel_intent(refined_query) ==
    IF AnyIn({"plan", "trek", "destination", "place", "trip", "travel", "itinerary",
              "suggest", "weekend", "beach", "mountain", "fort", "hike", "visit",
              "explore", "getaway", "escape"}, refined_query)
    THEN TRUE
    ELSE ~AnyIn({"no travel intent", "does not contain any travel",
                 "not related to travel", "error", "failed", "unable to"}, refined_query)

\* ---- the bot: the fields of WanderAIChatbot.__init__ (chatbot.py 26-43).
\* A Python list is [items |-> <<...>>], a str is [str |-> "..."], so that
\* each can be told from None.
List(s) == [items |-> s]
Str(s) == [str |-> s]
NewBot == [history |-> <<>>,
           current_intent |-> None,
           current_suggestions |-> List(<<>>),
           selected_destination |-> None,
           state |-> "suggestion",
           pending_clarification_query |-> None,
           pending_query_types |-> None,
           awaiting_clarification_response |-> FALSE]

history_append(bot, role, content) ==
    [bot EXCEPT !.history = Append(@, [role |-> role, content |-> content])]

\* a reset that leaves the clarification request pending
reset_session_keeps_clarification(bot) ==
    history_append([bot EXCEPT !.state = "suggestion",
                               !.current_intent = None,
                               !.current_suggestions = None,
                               !.selected_destination = None],
                   "System", <<"Session state reset">>)

\* chatbot.py 87-96
reset_session(bot) ==
    history_append([bot EXCEPT !.state = "suggestion",
                               !.current_intent = None,
                               !.current_suggestions = None,
                               !.selected_destination = None,
                               !.awaiting_clarification_response = FALSE,
                               !.pending_clarification_query = None,
                               !.pending_query_types = None],
                   "System", <<"Session state reset">>)

\* what the modules can return.  The refiner returns a refined text and
\* flags, or raises; the extractor returns a TravelIntent (a missing
\* budget or duration is 0) or raises; the suggester's destinations that
\* pass is_destination_grounded form a list, possibly empty
RefinedTexts == {"hello", "error"}
ExtractedIntents ==
    { [interests |-> {"hiking"}, budget |-> 0, duration_days |-> 2,   group_size |-> 1],
      [interests |-> {},         budget |-> 0, duration_days |-> 0,   group_size |-> 1],
      [interests |-> {"hiking"}, budget |-> 0, duration_days |-> 400, group_size |-> 1] }
Destination(name) == [name |-> name]
GroundedLists ==
    { <<Destination("lonavala")>>,
      <<Destination("lonavala"), Destination("alibaug beach")>>,
      <<Destination("alibaug beach"), Destination("lonavala")>> }

\* an outcome of a handler: the bot it leaves and the exception it raised
Ok(bot) == [bot |-> bot, error |-> "none"]
Raise(bot, error) == [bot |-> bot, error |-> error]

\* chatbot.py 799-816: the list of suggestions is emptied first; the
\* builder succeeds or raises
build_and_confirm_itinerary(bot) ==
    LET emptied == [bot EXCEPT !.current_suggestions = List(<<>>)]
    IN  { Ok(history_append([emptied EXCEPT !.state = "confirmation"], "Bot",
                            <<"Built itinerary for", emptied.selected_destination.name>>)),
          Ok([emptied EXCEPT !.state = "selection"]) }

\* chatbot.py 523-533 and 459-468: ask for a clarification and remember the query
request_clarification(bot, user_input, query_types) ==
    [history_append(bot, "Bot", <<"Clarification requested">>)
        EXCEPT !.awaiting_clarification_response = TRUE,
               !.pending_clarification_query = Str(user_input),
               !.pending_query_types = List(query_types)]

\* chatbot.py 653-678: store the suggestions; a destination named in the
\* query is selected at once, otherwise the options are displayed
store_suggestions(bot, user_input, grounded_dests) ==
    LET items == SubSeq(grounded_dests, 1, Min(3, Len(grounded_dests)))
        stored == [bot EXCEPT !.current_suggestions = List(items)]
        named == {i \in 1..Len(items) :
                     \/ In(dest_name_clean(items[i].name), user_input)
                     \/ In(items[i].name, user_input)}
        first == CHOOSE i \in named : \A j \in named : i <= j
    IN  IF named # {}
        THEN build_and_confirm_itinerary([stored EXCEPT !.selected_destination = items[first]])
        ELSE { Ok(history_append([stored EXCEPT !.state = "selection"], "Bot",
                                 <<"Suggested grounded options">>)) }

\* chatbot.py 600-651: from the extracted intent to the suggestions
suggest_for_intent(bot, user_input, intent) ==
    IF intent.interests = {} /\ intent.budget = 0 /\ intent.duration_days = 0
    THEN { Ok(bot) }
    ELSE IF ~validate_extracted_intent(intent)
    THEN { Ok(bot) }
    ELSE { Ok(bot),                                         \* suggester raised, or no destinations
           Ok(history_append(bot, "Bot", <<"No grounded destinations found">>)) }
         \cup UNION { store_suggestions(bot, user_input, grounded_dests) :
                         grounded_dests \in GroundedLists }

\* chatbot.py 573-607: from the refined query to the extracted intent
extract_for_refined(bot, user_input, refined_query, critical_budget) ==
    IF ~has_travel_intent(refined_query)
    THEN { Ok(history_append(bot, "Bot", <<"No travel intent detected">>)) }
    ELSE IF critical_budget
    THEN { Ok(history_append(bot, "Bot", <<"Budget rejected: insufficient">>)) }
    ELSE LET asked == history_append(bot, "User", <<user_input>>)
         IN  { Ok(asked) }                                  \* extractor raised
             \cup UNION { suggest_for_intent([asked EXCEPT !.current_intent = intent],
                                             user_input, intent) :
                             intent \in ExtractedIntents }

\* chatbot.py 504-678
handle_suggestion_flow(bot, user_input, skip_clarification) ==
    LET query_types == classify_query_type(user_input)
        is_independent == is_query_independent(bot, user_input)
        fresh == IF is_independent /\ should_reset_state(bot, user_input)
                 THEN [bot EXCEPT !.state = "suggestion",
                                  !.current_intent = None,
                                  !.current_suggestions = None,
                                  !.selected_destination = None]
                 ELSE bot
    IN  IF ~skip_clarification /\ needs_clarification(user_input, query_types)
        THEN { Ok(request_clarification(fresh, user_input, query_types)) }
        ELSE IF ~is_travel_trip_query(user_input, query_types)
        THEN { Ok(history_append(fresh, "Bot", <<"Not a travel trip query">>)) }
        ELSE IF is_gibberish_or_spam(user_input)
        THEN { Ok(history_append(fresh, "Bot", <<"Gibberish detected">>)) }
        ELSE IF is_out_of_scope(user_input)
        THEN { Ok(history_append(fresh, "Bot", <<"Out of scope query rejected">>)) }
        ELSE IF is_purely_interrogative(user_input)
        THEN { Ok(history_append(fresh, "Bot", <<"Purely interrogative query">>)) }
        ELSE extract_for_refined(fresh, user_input, user_input, FALSE)   \* refiner raised
             \cup UNION { extract_for_refined(fresh, user_input, refined_query, critical_budget) :
                             refined_query \in RefinedTexts \cup {user_input},
                             critical_budget \in BOOLEAN }

\* chatbot.py 680-797
positional_map(n) ==
    << [word |-> "first", idx |-> 0], [word |-> "1st", idx |-> 0], [word |-> "one", idx |-> 0],
       [word |-> "second", idx |-> 1], [word |-> "2nd", idx |-> 1], [word |-> "two", idx |-> 1],
       [word |-> "third", idx |-> 2], [word |-> "3rd", idx |-> 2], [word |-> "three", idx |-> 2],
       [word |-> "last", idx |-> n - 1] >>
location_preferences ==
    << [type |-> "beach",     keywords |-> {"beach", "sea", "coastal", "ocean", "shore"}],
       [type |-> "mountain",  keywords |-> {"mountain", "hill", "trek", "hiking", "peak"}],
       [type |-> "lake",      keywords |-> {"lake", "water", "dam", "reservoir"}],
       [type |-> "city",      keywords |-> {"city", "urban", "town"}],
       [type |-> "adventure", keywords |-> {"adventure", "trek", "hike"}] >>
handle_selection_state(bot, user_input) ==
    IF bot.current_suggestions = None
    THEN { Raise(bot, "TypeError") }
    ELSE
    LET items == bot.current_suggestions.items
        n == Len(items)
        select(i) == build_and_confirm_itinerary([bot EXCEPT !.selected_destination = items[i]])
        positions == positional_map(n)
        by_position == {p \in 1..Len(positions) :
                           /\ In(positions[p].word, user_input)
                           /\ 0 <= positions[p].idx /\ positions[p].idx < n}
        by_name == {i \in 1..n :
                       \/ In(items[i].name, user_input)
                       \/ In(user_input, items[i].name)
                       \/ \E w \in 1..Len(split(user_input)) :
                             /\ len(split(user_input)[w]) > 3
                             /\ In(split(user_input)[w], items[i].name)}
        by_preference(p) == {i \in 1..n : AnyIn(location_preferences[p].keywords, items[i].name)}
        preferred == {p \in 1..Len(location_preferences) :
                         /\ AnyIn(location_preferences[p].keywords, user_input)
                         /\ by_preference(p) # {}}
        least(S) == CHOOSE i \in S : \A j \in S : i <= j
    IN  IF AnyIn({"none of these", "show again", "show options", "list again", "all bad"}, user_input)
        THEN { Ok(bot) }
        ELSE IF AnyIn({"surprise", "random", "dealer's choice", "pick for me", "choose",
                       "you decide"}, user_input)
        THEN IF n = 0 THEN { Raise(bot, "ValueError") }      \* random.randint(0, -1)
             ELSE UNION { select(choice) : choice \in 1..n }
        ELSE IF int_parses(user_input)
        THEN IF 1 <= int(user_input) /\ int(user_input) <= n
             THEN select(int(user_input))
             ELSE { Ok(bot) }
        ELSE IF by_position # {}
        THEN select(positions[least(by_position)].idx + 1)
        ELSE IF by_name # {}
        THEN select(least(by_name))
        ELSE IF preferred # {}
        THEN select(least(by_preference(least(preferred))))
        ELSE IF AnyIn({"but", "instead", "what if", "tell me", "why", "how", "can we"}, user_input)
        THEN { Ok(bot) }
        ELSE IF \/ Len(split(user_input)) > 3
                \/ AnyIn({"plan", "suggest", "find", "want"}, user_input)
        THEN { Ok(bot) }
        ELSE IF n = 0 THEN { Raise(bot, "IndexError") }      \* self.current_suggestions[0]
             ELSE { Ok(bot) }

\* chatbot.py 829-898
handle_confirmation_state(bot, user_input) ==
    LET no_destination == bot.selected_destination = None
    IN  IF user_input = ""
        THEN IF no_destination THEN { Raise(bot, "AttributeError") } ELSE { Ok(bot) }
        ELSE IF AnyIn({"yes", "y", "confirm", "good", "looks good", "perfect", "great",
                       "love it", "awesome", "brilliant", "let's go", "book it", "confirmed"},
                      user_input)
        THEN IF no_destination THEN { Raise(bot, "AttributeError") }
             ELSE { Ok([history_append(bot, "Bot", <<"Booking confirmed">>)
                           EXCEPT !.state = "suggestion", !.selected_destination = None]) }
        ELSE IF AnyIn({"no", "n", "cancel", "not good", "try again", "nope", "don't like",
                       "not quite", "something else"}, user_input)
        THEN IF bot.current_suggestions = None
             THEN { Raise([bot EXCEPT !.state = "selection", !.selected_destination = None],
                          "TypeError") }
             ELSE { Ok(history_append([bot EXCEPT !.state = "selection",
                                                  !.selected_destination = None],
                                      "Bot", <<"Itinerary rejected, showing alternatives">>)) }
        ELSE IF AnyIn({"modify", "change", "adjust", "edit", "different", "more days",
                       "less days", "other", "instead"}, user_input)
        THEN IF bot.current_intent = None THEN { Raise(bot, "AttributeError") }
             ELSE { Ok([history_append(bot, "Bot", <<"User requested modifications">>)
                           EXCEPT !.state = "suggestion"]) }
        ELSE IF no_destination THEN { Raise(bot, "AttributeError") } ELSE { Ok(bot) }

\* ---- one iteration of the loop of run (chatbot.py 413-502).  The
\* result is the bot left behind, how the iteration ended ("continue",
\* "break" or the exception that ends the program) and the state
\* handlers that were called, with their arguments.
Called(handler, query, skip_clarification) ==
    [handler |-> handler, query |-> query, skip_clarification |-> skip_clarification]
Continue(bot) == { [bot |-> bot, status |-> "continue", trace |-> <<>>] }
Handled(outcomes, call) ==
    { [bot |-> o.bot,
       status |-> IF o.error = "none" THEN "continue" ELSE o.error,
       trace |-> <<call>>] : o \in outcomes }

confirmation_responses == {"yes", "yep", "yeah", "sure", "ok", "okay", "absolutely",
                           "definitely", "let's go", "sounds good", "yap", "yup"}
rejection_responses == {"no", "nope", "nah", "cancel", "never mind", "don't"}

\* chatbot.py 446-482: the query layers and the handler of the state
route_by_state(bot, user_input) ==
    LET query_types == classify_query_type(user_input)
        is_independent == is_query_independent(bot, user_input)
    IN  IF is_independent /\ should_reset_state(bot, user_input)
        THEN Continue(history_append([bot EXCEPT !.state = "suggestion",
                                                 !.current_intent = None,
                                                 !.current_suggestions = None,
                                                 !.selected_destination = None],
                                     "Bot", <<"State reset for new independent query">>))
        ELSE IF needs_clarification(user_input, query_types)
        THEN Continue(request_clarification(bot, user_input, query_types))
        ELSE IF bot.state = "suggestion" /\ ~is_travel_trip_query(user_input, query_types)
        THEN Continue(history_append(bot, "Bot", <<"Not a travel trip query">>))
        ELSE IF bot.state = "selection"
        THEN Handled(handle_selection_state(bot, user_input),
                     Called("handle_selection_state", user_input, FALSE))
        ELSE IF bot.state = "confirmation"
        THEN Handled(handle_confirmation_state(bot, user_input),
                     Called("handle_confirmation_state", user_input, FALSE))
        ELSE Handled(handle_suggestion_flow(bot, user_input, FALSE),
                     Called("handle_suggestion_flow", user_input, FALSE))

\* chatbot.py 424-444: the answer to a clarification request
is_confirmation(user_input) == Prefixes(user_input) \cap confirmation_responses # {}
is_rejection(user_input) == Prefixes(user_input) \cap rejection_responses # {}
\* an answer handling that reprocesses the answer instead of the pending query
clarification_response_reprocesses_answer(bot, user_input) ==
    IF is_confirmation(user_input) /\ bot.pending_clarification_query # None
    THEN Handled(handle_suggestion_flow(reset_session(bot), user_input, TRUE),
                 Called("handle_suggestion_flow", user_input, TRUE))
    ELSE IF ~is_confirmation(user_input) /\ is_rejection(user_input)
    THEN Continue(reset_session(bot))
    ELSE Continue(bot)

clarification_response(bot, user_input) ==
    IF is_confirmation(user_input) /\ bot.pending_clarification_query # None
    THEN Handled(handle_suggestion_flow(reset_session(bot),
                                        bot.pending_clarification_query.str, TRUE),
                 Called("handle_suggestion_flow", bot.pending_clarification_query.str, TRUE))
    ELSE IF ~is_confirmation(user_input) /\ is_rejection(user_input)
    THEN Continue(reset_session(bot))
    ELSE IF /\ is_query_independent(bot, user_input)
            /\ classify_query_type(user_input) # <<"general">>
    THEN route_by_state(reset_session(bot), user_input)
    ELSE Continue(bot)

run_iteration(bot, user_input) ==
    IF user_input \in {"exit", "quit", "bye", "goodbye"}
    THEN { [bot |-> bot, status |-> "break", trace |-> <<>>] }
    ELSE IF user_input = ""
    THEN Continue(bot)
    ELSE IF is_frustration_or_emotion(user_input)
    THEN Continue(history_append(reset_session(bot), "Bot",
                                 <<"Frustration detected, session reset">>))
    ELSE IF bot.awaiting_clarification_response
    THEN clarification_response(bot, user_input)
    ELSE route_by_state(bot, user_input)

\* ---- the specification: cur is the bot, arg the last input, pre the
\* bot before it, calls the handlers called for it, ret how the
\* iteration ended, pc whether the loop is still running
InitCli ==
    /\ cur = NewBot
    /\ pre = NewBot
    /\ arg = ""
    /\ calls = <<>>
    /\ ret = "continue"
    /\ pc = "running"
    /\ nmsgs = 0
    /\ sessions = <<>> /\ decision = None /\ result = None /\ faults = {}

Input(user_input) ==
    /\ pc = "running"
    /\ nmsgs < MaxCliInputs
    /\ \E out \in run_iteration(cur, user_input) :
          /\ cur' = out.bot
          /\ calls' = out.trace
          /\ ret' = out.status
          /\ pc' = IF out.status = "continue" THEN "running"
                   ELSE IF out.status = "break" THEN "exited"
                   ELSE "crashed"
    /\ pre' = cur
    /\ arg' = user_input
    /\ nmsgs' = nmsgs + 1
    /\ UNCHANGED <<sessions, decision, result, faults>>

NextCli == \E user_input \in CliInputs : Input(user_input)

SpecCli == InitCli /\ [][NextCli]_vars

\* the last input went through the loop as far as the frustration layer
InputReachedLayers == nmsgs > 0 /\ arg \notin {"exit", "quit", "bye", "goodbye", ""}

\* C22: an input detected as frustration is handled before any state
\* handler whatever the state and whether or not a clarification is
\* pending: afterwards the state is "suggestion", the current intent and
\* the selected destination are cleared, no clarification is pending and
\* no handler was called for that input.
C22_FrustrationPreemptsHandlers ==
    (InputReachedLayers /\ is_frustration_or_emotion(arg)) =>
        /\ cur.state = "suggestion"
        /\ cur.current_intent = None
        /\ cur.selected_destination = None
        /\ ~cur.awaiting_clarification_response
        /\ cur.pending_clarification_query = None
        /\ calls = <<>>
        /\ pc = "running"

\* frustration typed in state "confirmation" while a clarification is pending
C22_Witness ==
    /\ InputReachedLayers /\ is_frustration_or_emotion(arg)
    /\ pre.state = "confirmation"
    /\ pre.selected_destination # None
    /\ pre.awaiting_clarification_response

\* the last input answered a pending clarification request
AnsweredClarification ==
    /\ InputReachedLayers
    /\ ~is_frustration_or_emotion(arg)
    /\ pre.awaiting_clarification_response

\* C23: after a clarification request, a confirmation makes the stored
\* pending query (not the confirmation text) go through the suggestion
\* flow with the clarification check skipped; a rejection discards the
\* pending query; in both cases no clarification is pending afterwards.
C23_ClarificationAnswer ==
    /\ (AnsweredClarification /\ is_confirmation(arg)) =>
          /\ pre.pending_clarification_query # None
          /\ calls = <<Called("handle_suggestion_flow",
                              pre.pending_clarification_query.str, TRUE)>>
          /\ ~cur.awaiting_clarification_response
          /\ cur.pending_clarification_query = None
    /\ (AnsweredClarification /\ ~is_confirmation(arg) /\ is_rejection(arg)) =>
          /\ calls = <<>>
          /\ ~cur.awaiting_clarification_response
          /\ cur.pending_clarification_query = None

\* "yes" after the clarification request for "romantic date"
C23_Witness ==
    /\ AnsweredClarification /\ arg = "yes"
    /\ pre.pending_clarification_query = Str("romantic date")
    /\ calls = <<Called("handle_suggestion_flow", "romantic date", TRUE)>>
    /\ cur.current_intent # None

\* C29: in state "selection" the list of current suggestions is not
\* empty, and in state "confirmation" a destination is selected.
C29_StateHasItsData ==
    /\ cur.state = "selection" =>
          /\ cur.current_suggestions # None
          /\ cur.current_suggestions.items # <<>>
    /\ cur.state = "confirmation" => cur.selected_destination # None

\* ------------------------------------------------------------------
\* RoutingEngine: the keyword fast path (SpecRouter)
\* ------------------------------------------------------------------
\* the utterance counts as travel-related: a travel keyword occurs in it,
\* or there is a conversation history to inherit from
TravelRelated ==
    \/ arg.query_lower \cap TRAVEL_RELATED_KEYWORDS # {}
    \/ arg.conversation_history # <<>>

\* the keyword-match count of each category, in the order TRIP_SUGGESTION,
\* ITINERARY_REQUEST, DESTINATION_INFO, TRAVEL_TIPS
CategoryCounts ==
    << Cardinality(arg.query_lower \cap TRIP_SUGGESTION_KEYWORDS),
       Cardinality(arg.query_lower \cap ITINERARY_REQUEST_KEYWORDS),
       Cardinality(arg.query_lower \cap DESTINATION_INFO_KEYWORDS),
       Cardinality(arg.query_lower \cap TRAVEL_TIPS_KEYWORDS) >>
FirstBestCategory ==
    CHOOSE i \in 1..4 :
        /\ \A j \in 1..4 : CategoryCounts[j] <= CategoryCounts[i]
        /\ \A j \in 1..(i - 1) : CategoryCounts[j] < CategoryCounts[i]
CountConfidence(count) == IF 70 + 10 * count <= 95 THEN 70 + 10 * count ELSE 95

MaxFacts == 11      \* facts handed to format_for_llm

\* a context is a sequence of pieces of text; a piece cut by a slice keeps
\* its first chars characters
Piece(s) == [of |-> s, chars |-> Len(s)]

RECURSIVE TextLen(_)
\* len(text)
TextLen(text) == IF text = <<>> THEN 0 ELSE Head(text).chars + TextLen(Tail(text))

RECURSIVE Take(_, _)
\* text[:n], for n >= 0
Take(text, n) ==
    IF n <= 0 \/ text = <<>> THEN <<>>
    ELSE IF Head(text).chars <= n
         THEN <<Head(text)>> \o Take(Tail(text), n - Head(text).chars)
         ELSE << [of |-> Head(text).of, chars |-> n] >>

RECURSIVE JoinWith(_, _)
\* sep.join(parts), each part a sequence of pieces
JoinWith(sep, parts) ==
    IF parts = <<>> THEN <<>>
    ELSE IF Len(parts) = 1 THEN parts[1]
    ELSE parts[1] \o <<Piece(sep)>> \o JoinWith(sep, Tail(parts))

RulesHeader ==
    "KNOWLEDGE BASE CONTEXT - STRICT RULES:\n\nYou MUST follow these rules exactly:\n1. Use ONLY the information below from the knowledge base\n2. Do NOT use any external knowledge or assumptions\n3. Do NOT invent, estimate, or guess information\n4. If asked something not in this knowledge base, respond: \"I don't have this information in my knowledge base\"\n\nAVAILABLE FACTS:"
Requirement ==
    "\nDO NOT do any of these:\n- Make up specific numbers or costs\n- Invent facts not listed above\n- Use phrases like \"I believe\", \"probably\", \"likely\"\n- Extend information beyond what's provided\n- Use general knowledge instead of KB facts\n\nIf the knowledge base doesn't contain information to answer the user's question,\nrespond with: \"I don't have this information in my knowledge base.\nI can help with: [list of topics available in KB]\"\n"
NoFactsLine == "- (No relevant information found)"
TruncationMarker == "\n..."
FactLimit == 10
DefaultMaxContextLength == 3000

\* full_context of format_for_llm, before it is truncated; sord is the
\* order of set(sources)
assemble_context_all_facts(sources, sord, facts) ==
    LET facts_text == JoinWith("\n", [i \in 1..Len(facts) |->
                                         <<Piece("- "), Piece(facts[i].fact)>>])
        sources_text == <<Piece("\nRELIABLE SOURCES: ")>>
                        \o JoinWith(", ", [i \in 1..Len(sord) |-> <<Piece(sord[i])>>])
        context_parts ==
            << <<Piece(RulesHeader)>> >>
            \o (IF facts # <<>> THEN <<facts_text>> ELSE << <<Piece(NoFactsLine)>> >>)
            \o (IF sources # <<>> THEN <<sources_text>> ELSE <<>>)
            \o << <<Piece(Requirement)>> >>
    IN  JoinWith("\n", context_parts)

assemble_context(sources, sord, facts) ==
    LET facts_text == JoinWith("\n", [i \in 1..Min(FactLimit, Len(facts)) |->
                                         <<Piece("- "), Piece(facts[i].fact)>>])
        sources_text == <<Piece("\nRELIABLE SOURCES: ")>>
                        \o JoinWith(", ", [i \in 1..Len(sord) |-> <<Piece(sord[i])>>])
        context_parts ==
            << <<Piece(RulesHeader)>> >>
            \o (IF facts # <<>> THEN <<facts_text>> ELSE << <<Piece(NoFactsLine)>> >>)
            \o (IF sources # <<>> THEN <<sources_text>> ELSE <<>>)
            \o << <<Piece(Requirement)>> >>
    IN  JoinWith("\n", context_parts)

\* StrictRAGContext.format_for_llm
format_for_llm(sources, sord, facts, max_context_length) ==
    LET full_context == assemble_context(sources, sord, facts)
    IN  IF TextLen(full_context) > max_context_length
        THEN Take(full_context, max_context_length) \o <<Piece(TruncationMarker)>>
        ELSE full_context

\* the inputs: responses of up to MaxUnits pieces with hedge words in both
\* cases, fact lists, source lists with and without a repeated source
LayerUnits == {<<"probably">>, <<"Probably">>, <<"roughly">>, <<"cold">>, <<".">>}
LayerResponses ==
    {Concat(us) : us \in UNION {[1..n -> LayerUnits] : n \in 0..MaxUnits}}
LayerFacts ==
    {<<>>,
     << [fact |-> <<"Lonavala", "is", "probably", "cold">>] >>,
     << [fact |-> <<"it", "rains">>], [fact |-> <<"cold", "nights">>] >>}
LayerSources ==
    {<<>>, <<"places.json">>, <<"places.json", "places.json">>,
     <<"places.json", "treks.json">>}

\* the facts of the formatter: "fact 1", "fact 2", ... and lists of up to
\* MaxFacts of them, in both orders
FactTexts ==
    <<"fact 1", "fact 2", "fact 3", "fact 4", "fact 5", "fact 6", "fact 7",
      "fact 8", "fact 9", "fact 10", "fact 11", "fact 12", "fact 13">>
FormatterFacts ==
    {[i \in 1..n |-> [fact |-> FactTexts[i]]] : n \in 0..Min(MaxFacts, Len(FactTexts))}
    \cup {[i \in 1..n |-> [fact |-> FactTexts[n + 1 - i]]] : n \in 2..3}
FormatterSources == {<<>>, <<"places.json">>, <<"places.json", "treks.json">>}
MaxContextLengths ==
    {0, 100, 365, 400,
     TextLen(assemble_context(<<>>, <<>>, <<>>)) - 1,
     TextLen(assemble_context(<<>>, <<>>, <<>>)),
     DefaultMaxContextLength}

ValidateArgs ==
    UNION { [op : {"validate_response"}, response : {response},
             sources : {sources}, facts : LayerFacts,
             cord : Perms(detect_unsourced_claims(response)),
             sord : Perms(Range(sources))] :
               response \in LayerResponses, sources \in LayerSources }
FormatArgs ==
    UNION { [op : {"format_for_llm"}, sources : {sources}, sord : Perms(Range(sources)),
             facts : FormatterFacts, max_context_length : MaxContextLengths] :
               sources \in FormatterSources }

InitLayers ==
    /\ arg \in ValidateArgs \cup FormatArgs
    /\ ret = None /\ decision = None /\ result = None
    /\ sessions = <<>> /\ pc = "idle" /\ cur = NoCall
    /\ pre = None /\ calls = <<>> /\ faults = {} /\ nmsgs = 0

ValidateResponse ==
    /\ arg.op = "validate_response"
    /\ ret = None
    /\ ret' = validate_response(arg.response, arg.sources, arg.facts, arg.cord, arg.sord)
    /\ UNCHANGED <<sessions, pc, cur, decision, result, pre, calls, faults, nmsgs, arg>>

\* validate_response called again for the same response with a list of
\* the same sources; set(sources) is iterated in the order sord
ValidateAgain(sources, sord) ==
    /\ arg.op = "validate_response"
    /\ ret # None
    /\ decision = None
    /\ Range(sources) = Range(arg.sources)
    /\ sord \in Perms(Range(sources))
    /\ decision' = validate_response(arg.response, sources, arg.facts, arg.cord, sord)
    /\ UNCHANGED <<sessions, pc, cur, result, pre, calls, faults, nmsgs, arg, ret>>

\* result is the assembled context, ret the context returned
FormatForLlm ==
    /\ arg.op = "format_for_llm"
    /\ ret = None
    /\ result' = [context |-> assemble_context(arg.sources, arg.sord, arg.facts)]
    /\ ret' = [context |-> format_for_llm(arg.sources, arg.sord, arg.facts,
                                          arg.max_context_length)]
    /\ UNCHANGED <<sessions, pc, cur, decision, pre, calls, faults, nmsgs, arg>>

NextLayers ==
    \/ ValidateResponse
    \/ \E sources \in LayerSources :
       \E sord \in Perms(Range(sources)) : ValidateAgain(sources, sord)
    \/ FormatForLlm

SpecLayers == InitLayers /\ [][NextLayers]_vars

Validated == arg.op = "validate_response" /\ ret # None
Formatted == arg.op = "format_for_llm" /\ ret # None

\* token i of text lies inside a "[Unverified: ...]" or
\* "[According to my knowledge base: ...]" marker
InsideMarker(text, i) ==
    \E j \in 1..(i - 1) :
        /\ text[j] = "[" /\ text[j + 1] \in {"Unverified", "According"}
        /\ \A k \in j..(i - 1) : text[k] # "]"
OccursOutsideMarker(text, claim) ==
    \E i \in 1..(Len(text) - Len(claim) + 1) :
        /\ SubSeq(text, i, i + Len(claim) - 1) = claim
        /\ ~InsideMarker(text, i)

\* C25: validate_response replaces every flagged claim by
\* "[According to my knowledge base: <fact>]", with the fact that has the
\* largest nonzero word overlap, or by "[Unverified: <claim>]" when no fact
\* overlaps; no occurrence of a flagged claim remains in the returned text
\* outside such a marker.
C25_FlaggedClaimsAreReplaced ==
    Validated =>
        \A c \in 1..Len(ret.unsourced_claims) :
            LET claim == ret.unsourced_claims[c]
            IN  /\ \/ Occurs(UnverifiedMarker(claim), ret.response)
                   \/ \E f \in 1..Len(arg.facts) :
                         Occurs(KbDisclaimer(arg.facts[f].fact), ret.response)
                /\ ~OccursOutsideMarker(ret.response, claim)

\* the footer: the text from the last "**Sources:**" heading on
FooterOf(text) ==
    LET starts == {i \in DOMAIN text : text[i] = "\n\n**"}
        last == CHOOSE i \in starts : \A j \in starts : j <= i
    IN  SubSeq(text, last, Len(text))
TimesIn(text, token) == Cardinality({i \in DOMAIN text : text[i] = token})

\* C26: the sources footer is a function of the set of sources: each
\* distinct source is listed once, comma-joined; it reads "(none found)"
\* when there is no source; the multiple-sources suffix is there if and
\* only if there is more than one distinct source.
C26_FooterIsFunctionOfSourceSet ==
    Validated =>
        LET footer == FooterOf(ret.response)
            distinct == Range(arg.sources)
        IN  /\ \A s \in distinct : TimesIn(footer, s) = 1
            /\ TimesIn(footer, ",") = Max(Cardinality(distinct) - 1, 0)
            /\ distinct = {} => Occurs(<<"(none found)">>, footer)
            /\ ("Multiple" \in Range(footer)) <=> (Cardinality(distinct) > 1)
            /\ decision # None => FooterOf(decision.response) = footer

RECURSIVE ListedFacts(_)
\* the pieces that follow a "- " piece, in order
ListedFacts(context) ==
    IF Len(context) < 2 THEN <<>>
    ELSE IF Head(context) = Piece("- ")
         THEN <<context[2]>> \o ListedFacts(Tail(Tail(context)))
         ELSE ListedFacts(Tail(context))

\* C27: the assembled context starts with the rules header and has a
\* facts section, which lists the first 10 facts at most, in their order,
\* and holds the no-information placeholder exactly when there is no
\* fact; the context is returned whole when its length is within
\* max_context_length, and otherwise cut to exactly max_context_length
\* characters, followed by the truncation marker.
C27_ContextLayout ==
    Formatted =>
        LET full == result.context
            out == ret.context
            listed == Min(Len(arg.facts), 10)
        IN  /\ Head(full) = Piece(RulesHeader)
            /\ ListedFacts(full) = [i \in 1..listed |-> Piece(arg.facts[i].fact)]
            /\ (\E i \in DOMAIN full : full[i] = Piece(NoFactsLine)) <=> (arg.facts = <<>>)
            /\ TextLen(full) <= arg.max_context_length => out = full
            /\ TextLen(full) > arg.max_context_length =>
                  /\ out = Take(full, arg.max_context_length) \o <<Piece("\n...")>>
                  /\ TextLen(out) = arg.max_context_length + 4

\* eleven facts and a context longer than the limit
C27_Witness ==
    /\ Formatted
    /\ Len(arg.facts) = 11
    /\ Len(ListedFacts(result.context)) = 10
    /\ TextLen(result.context) > arg.max_context_length
    /\ arg.max_context_length = 400
    /\ ret.context[Len(ret.context)] = Piece("\n...")


(***************************************************************************)
(* Several process_message calls of one session through the task modules   *)
(* (src/modules/chatbot_core.py, src/modules/module_dispatcher.py)         *)
(***************************************************************************)
MaxTurns == 3       \* process_message calls of the session

\* utterances the keyword router sends to the task modules
ModuleInputs == {{"suggest"}, {"plan"}, {"suggest", "plan"}}

\* what the modules do during one call: the refinement of process_message,
\* the two refinements of dispatch, extraction, suggestion and building
AllModulesWork ==
    [refined |-> "ok", structured |-> "ok", legacy |-> "ok", ext |-> "intent",
     sug |-> "destinations", bld |-> "itinerary"]
\* the calls in which at most one module call departs from its work, and
\* those in which both refinements of dispatch do
ModuleOutcomes ==
    {o \in [refined : RefineOutcomes, structured : RefineOutcomes,
            legacy : RefineOutcomes, ext : ExtractOutcomes,
            sug : SuggestOutcomes, bld : BuildOutcomes] :
        \/ Cardinality({f \in DOMAIN o : o[f] # AllModulesWork[f]}) <= 1
        \/ /\ o.structured = "raise" /\ o.legacy # "ok"
           /\ [o EXCEPT !.structured = "ok", !.legacy = "ok"] = AllModulesWork}

\* the session a process_message call works on: the one of the dialogue, or
\* a new one on the first call
DialogueSession == IF sessions = <<>> THEN NewSession ELSE sessions[1]

\* process_message, lines 169-172, with refresh_kb = False
received(session, user_input) ==
    [add_message(session, "User", user_input)
        EXCEPT !.validation_stats.total_messages = @ + 1]

\* process_message, lines 211-241, for a decision that leads to the task
\* modules: _handle_module_pipeline, the session id, post-processing
module_turn(session, routing_decision, o, rag, ord, fault) ==
    LET h == handle_module_pipeline(session, routing_decision,
                                    o.structured, o.legacy, o.ext, o.sug, o.bld)
        r == h.result @@ ("session_id" :> 1)
    IN  [calls |-> h.calls, result |-> post_process_response(r, rag, ord, fault)]

\* the result process_message returns before routing for a critical budget
\* (lines 184-206), otherwise that of module_turn
turn_result(session, routing_decision, o, rag, ord, fault) ==
    IF o.refined = "critical"
    THEN [calls |-> <<>>, result |-> ShortCircuitResult @@ ("session_id" :> 1)]
    ELSE module_turn(session, routing_decision, o, rag, ord, fault)

\* the text post-processing verifies: that of a result that does not bypass
\* the verification
TurnCheckedText(session, routing_decision, o) ==
    LET r == handle_module_pipeline(session, routing_decision, o.structured,
                                    o.legacy, o.ext, o.sug, o.bld).result
    IN  IF BypassesVerification(r) THEN <<>> ELSE r.response

InitDialogue ==
    /\ sessions = <<>>
    /\ pc = "idle"
    /\ cur = [asked |-> "nothing", suggested_before |-> FALSE,
              modules_work |-> FALSE]
    /\ decision = None
    /\ result = None
    /\ pre = None
    /\ calls = <<>>
    /\ faults = {}
    /\ nmsgs = 0
    /\ arg = None
    /\ ret = None

\* one process_message call whose routing decision is intent_type at a
\* confidence that reaches the task modules, with a Retrieval Service that
\* has documents for every candidate of the verification.  cur notes what
\* was asked, whether every module did its work, and whether a suggestion
\* had been returned before.
ModuleTurn(intent_type, user_input, o, fault) ==
    /\ nmsgs < MaxTurns
    /\ LET s1 == received(DialogueSession, user_input)
           d == classify(user_input, LastN(s1.message_history, HistoryWindow),
                         LlmFailure)
       IN  /\ d.intent_type = intent_type
           /\ d.confidence >= TASK_MODULE_CONFIDENCE_THRESHOLD
           /\ \E rag \in RagsFor(TurnCheckedText(s1, d, o), {"docs"}) :
              \E ord \in OrdersFor(TurnCheckedText(s1, d, o), rag) :
                 LET t == turn_result(s1, d, o, rag, ord, fault)
                 IN  /\ result' = t.result
                     /\ calls' = t.calls
           /\ sessions' = <<s1>>
           /\ decision' = d
    /\ cur' = [asked |-> intent_type,
               suggested_before |->
                   \/ cur.suggested_before
                   \/ (result # None /\ result.type = "suggestion"
                       /\ result.data = "suggestions"),
               modules_work |-> (o = AllModulesWork /\ fault = "none")]
    /\ pc' = "done"
    /\ nmsgs' = nmsgs + 1
    /\ UNCHANGED <<pre, faults, arg, ret>>

\* a message asking for a suggestion
AskSuggestion(user_input, o, fault) ==
    ModuleTurn("TRIP_SUGGESTION", user_input, o, fault)

\* a message asking for an itinerary
AskItinerary(user_input, o, fault) ==
    ModuleTurn("ITINERARY_REQUEST", user_input, o, fault)

NextDialogue ==
    \/ \E user_input \in ModuleInputs, o \in ModuleOutcomes,
          fault \in {"none", "escape"} :
          AskSuggestion(user_input, o, fault)
    \/ \E user_input \in ModuleInputs, o \in ModuleOutcomes,
          fault \in {"none", "escape"} :
          AskItinerary(user_input, o, fault)

SpecDialogue == InitDialogue /\ [][NextDialogue]_vars

\* an itinerary was asked for after a suggestion had been returned to the
\* session, and every module did its work during the call
ItineraryAskedAfterSuggestion ==
    /\ pc = "done"
    /\ cur.asked = "ITINERARY_REQUEST"
    /\ cur.suggested_before
    /\ cur.modules_work

\* C28: once a suggestion was returned to a session, its suggested_places
\* holds the suggested names, and an ITINERARY_REQUEST that reaches the task
\* modules later in the session returns an itinerary, not a clarification
\* question.
C28_SuggestionFeedsItinerary ==
    /\ (pc = "done" /\ result.type = "suggestion" /\ result.data = "suggestions")
          => sessions[1].suggested_places # <<>>
    /\ ItineraryAskedAfterSuggestion
          => /\ result.type = "itinerary"
             /\ "itinerary_builder" \in Range(calls)

(***************************************************************************)
(* The cross-check of post-processing on the RAG_ONLY path                 *)
(***************************************************************************)
\* process_message returned a generated answer of _handle_general_chat whose
\* post-processing met no exception
GeneratedAnswerChecked ==
    /\ pc = "done"
    /\ pre # None
    /\ pre.path = "RAG_ONLY"
    /\ "validator" \in Range(calls)
    /\ faults \cap PostFaults = {}

\* C30: on the RAG_ONLY path the cross-check looks up and reports only
\* candidates of the text the Generation Service returned, never the text
\* the validator inserted (the sources footer, the markers); a generated
\* answer that passed the pattern check and whose own candidates all have
\* documents ends with validation_status "grounded".
C30_OnlyGeneratedTextIsChecked ==
    GeneratedAnswerChecked =>
        /\ cur.verified_against \subseteq Candidates(cur.generated)
        /\ cur.unsupported \subseteq Candidates(cur.generated)
        /\ (/\ pre.validation_status = "grounded"
            /\ cur.unsupported \cap Candidates(cur.generated) = {})
              => result.validation_status = "grounded"
====
